---- MODULE Spec2Model ----
(***************************************************************************)
(* MIDIMaster: binding resolution, learn mode, feedback dispatch and the   *)
(* reconciliation loop (src-tauri/src/{bindings,midi,main}.rs and          *)
(* src-tauri/src/commands/*.rs).                                           *)
(*                                                                         *)
(* f32 values in [0.0, 1.0] are exact rationals with denominator One, so   *)
(* that r/127, v/16383 and k*0.02 are all integers.  Option<T> is a        *)
(* sequence of length 0 (None) or 1 (Some).  Instants are milliseconds.    *)
(***************************************************************************)
EXTENDS Integers, Sequences, FiniteSets, TLC

VARIABLES
    now,              \* the monotonic clock read by Instant::now()
    active_profile,   \* AppState.active_profile  : Option<Profile>
    binding_state,    \* AppState.binding_state   : HashMap<BindingKey, BindingState>
    feedback_values,  \* AppState.feedback_values : HashMap<BindingKey, f32>
    learn_pending,    \* AppState.learn_pending   : bool
    learn_candidate,  \* AppState.learn_candidate : Option<(LearnedControl, Instant)>
    learned_control,  \* AppState.learned_control : Option<LearnedControl>
    osd_last_update,  \* AppState.osd_last_update : Option<Instant>
    store,            \* ProfileStore: the profiles of profiles.json, in file order
    audio,            \* the true state behind the AudioBackend
    midi,             \* MidiManager
    transport,        \* the MIDI output port behind midir
    hw,               \* per physical control, the last feedback frame it received
    pcEv, ev,         \* the MIDI input callback: position and locals
    tasks,            \* async tasks in flight: delayed re-assertions, remove_binding
    pcLoop, lp,       \* the reconciliation loop: position and locals
    res,              \* observer: the last call of bindings::apply_midi_event
    eff,              \* observer: what the current event has done so far
    used,             \* observer: the UI commands and MIDI frames so far
    heard,            \* observer: the events received since learn mode was armed
    polled,           \* observer: the consume_learned_control calls and the last result
    ctx               \* per thread of control, the code path it runs and its position in it

appVars   == <<active_profile, binding_state, feedback_values, osd_last_update, store>>
learnVars == <<learn_pending, learn_candidate, learned_control, heard, polled>>
ioVars    == <<audio, midi, transport, hw>>
evVars    == <<pcEv, ev, tasks, res, eff>>
loopVars  == <<pcLoop, lp>>

vars == <<now, used, appVars, learnVars, ioVars, evVars, loopVars, ctx>>

----------------------------------------------------------------------------
(* Bounds of the explored behaviours *)

ClockStep == 50     \* the clock advances in steps of this many milliseconds
MaxTime == 150      \* and stops here
MaxCmds == 2        \* UI commands per behaviour
MaxEvents == 3      \* MIDI frames per behaviour
MaxLearnTime == 200 \* where the clock stops while a control is being learned
FeedbackStep == 2500    \* the clock's step while the output port is failing
MaxFeedbackTime == 17500 \* and where it stops then

----------------------------------------------------------------------------
(* Values *)

One == 127 * 129 * 50

None == <<>>
Some(x) == <<x>>

Abs(x) == IF x < 0 THEN -x ELSE x

Clamp(v) == IF v < 0 THEN 0 ELSE IF v > One THEN One ELSE v

RELATIVE_STEP == One \div 50

RECURSIVE BitOr(_, _)
BitOr(a, b) ==
    IF a = 0 THEN b
    ELSE IF b = 0 THEN a
    ELSE (IF (a % 2 = 1) \/ (b % 2 = 1) THEN 1 ELSE 0) + 2 * BitOr(a \div 2, b \div 2)

RECURSIVE BitAnd(_, _)
BitAnd(a, b) ==
    IF a = 0 \/ b = 0 THEN 0
    ELSE (IF (a % 2 = 1) /\ (b % 2 = 1) THEN 1 ELSE 0) + 2 * BitAnd(a \div 2, b \div 2)

----------------------------------------------------------------------------
(* midi.rs: decoding of one byte frame *)

parse_midi_message(device_id, message) ==
    IF Len(message) < 3 THEN None
    ELSE LET status  == message[1]
             command == BitAnd(status, 240)
             channel == BitAnd(status, 15)
         IN  CASE command = 176 ->
                    Some([device_id |-> device_id, channel |-> channel,
                          controller |-> message[2], value |-> message[3],
                          value_14 |-> None, msg_type |-> "ControlChange"])
               [] command \in {144, 128} ->
                    Some([device_id |-> device_id, channel |-> channel,
                          controller |-> message[2],
                          value |-> IF command = 128 THEN 0 ELSE message[3],
                          value_14 |-> None, msg_type |-> "Note"])
               [] command = 224 ->
                    Some([device_id |-> device_id, channel |-> channel,
                          controller |-> 224, value |-> message[3],
                          value_14 |-> Some(BitOr((message[3] * 128) % 65536, message[2])),
                          msg_type |-> "PitchBend"])
               [] OTHER -> None

----------------------------------------------------------------------------
(* bindings.rs *)

BindingKey_from_event(event) ==
    <<event.device_id, event.channel, event.controller>>

BindingKey_from_binding(binding) ==
    <<binding.device_id, binding.control.channel, binding.control.controller>>

RECURSIVE FirstIndex(_, _, _)
FirstIndex(bindings, key, i) ==
    IF i > Len(bindings) THEN 0
    ELSE IF BindingKey_from_binding(bindings[i]) = key THEN i
    ELSE FirstIndex(bindings, key, i + 1)

find_binding(profile, key) ==
    LET i == FirstIndex(profile.bindings, key, 1)
    IN  IF i = 0 THEN None ELSE Some(profile.bindings[i])

\* absolute shaping that always scales the 7-bit data byte
absolute_value_7bit(binding, event) == Some(event.value * (One \div 127))

absolute_value(binding, event) ==
    IF binding.control.controller = 224
    THEN IF event.value_14 = None THEN None
         ELSE Some(event.value_14[1] * (One \div 16383))
    ELSE Some(event.value * (One \div 127))

\* relative decoding as a 7-bit two's complement number
relative_delta_twos_complement(value) ==
    CASE value \in 0..63    -> Some(value)
      [] value \in 64..127  -> Some(value - 128)
      [] OTHER              -> None

relative_delta(value) ==
    CASE value \in {0, 64}  -> Some(0)
      [] value \in 1..63    -> Some(value)
      [] value \in 65..127  -> Some(-(value - 64))
      [] OTHER              -> None

\* lines 57-63: the shaped value of the event, if it has one
next_value(binding, event, state) ==
    IF binding.mode = "Absolute" THEN absolute_value(binding, event)
    ELSE LET delta == relative_delta(event.value)
         IN  IF delta = None THEN None
             ELSE Some(Clamp(state.last_value + delta[1] * RELATIVE_STEP))

\* the resolver without its debounce test
apply_midi_event_without_debounce(binding, event, state, t) ==
    LET v == next_value(binding, event, state)
    IN  IF v = None \/ (binding.deadzone > 0 /\ Abs(v[1] - state.last_value) < binding.deadzone)
        THEN [ret |-> None, state |-> state]
        ELSE [ret |-> v, state |-> [last_value |-> v[1], last_update |-> t]]

\* the resolver with a deadzone test that also rejects a difference of exactly Z
apply_midi_event_deadzone_inclusive(binding, event, state, t) ==
    LET v == next_value(binding, event, state)
    IN  IF \/ binding.debounce_ms > 0 /\ t - state.last_update < binding.debounce_ms
           \/ v = None
           \/ binding.deadzone > 0 /\ Abs(v[1] - state.last_value) <= binding.deadzone
        THEN [ret |-> None, state |-> state]
        ELSE [ret |-> v, state |-> [last_value |-> v[1], last_update |-> t]]

apply_midi_event(binding, event, state, t) ==
    LET suppressed == [ret |-> None, state |-> state]
        v == next_value(binding, event, state)
    IN
    IF binding.debounce_ms > 0 /\ t - state.last_update < binding.debounce_ms
    THEN suppressed
    ELSE IF v = None THEN suppressed
    ELSE IF binding.deadzone > 0 /\ Abs(v[1] - state.last_value) < binding.deadzone
    THEN suppressed
    ELSE [ret |-> v, state |-> [last_value |-> v[1], last_update |-> t]]

----------------------------------------------------------------------------
(* HashMap<K, V> as a function on the set of present keys *)

EmptyMap == [k \in {} |-> 0]
Has(m, k) == k \in DOMAIN m
Get(m, k) == IF Has(m, k) THEN Some(m[k]) ELSE None
Put(m, k, v) == [x \in DOMAIN m \cup {k} |-> IF x = k THEN v ELSE m[x]]
Del(m, k) == [x \in DOMAIN m \ {k} |-> m[x]]

----------------------------------------------------------------------------
(* The audio collaborator (audio/mod.rs, audio/windows.rs).  One render     *)
(* session "s1" of process my-app.exe, one playback and one recording       *)
(* device; the foreground process is my-app.exe or none.                    *)

SessionIds == {"s1"}

to_lowercase(s) ==
    CASE s = "My-App"   -> "my-app"
      [] s = "My App"   -> "my app"
      [] s = "Master"   -> "master"
      [] OTHER          -> s

file_stem(path) ==
    CASE path = "C:/Apps/my-app.exe" -> Some("my-app")
      [] OTHER                       -> None

strip_exe(name) == IF name = "my-app.exe" THEN "my-app" ELSE name

SessionInfo(a, sid) ==
    [id |-> sid, display_name |-> "My App",
     process_name |-> Some("my-app.exe"), process_path |-> Some("C:/Apps/my-app.exe"),
     volume |-> a.sessions[sid].volume, is_muted |-> a.sessions[sid].is_muted,
     is_master |-> FALSE]

MasterInfo(a) ==
    [id |-> "master", display_name |-> "Master",
     process_name |-> None, process_path |-> None,
     volume |-> a.master.volume, is_muted |-> a.master.is_muted, is_master |-> TRUE]

\* the queries of the AudioBackend: each is a series of COM calls of its own
\* and returns Err on its own
AudioQueries == {"list_sessions", "list_playback_devices", "list_recording_devices",
                 "focused_session"}

\* the query returns Err: the backend is down, or that query fails
Failing(a, query) == ~a.up \/ ("failing" \in DOMAIN a /\ query \in a.failing)

\* AudioBackend::list_sessions: Err as None, else the master entry and the sessions
list_sessions(a) ==
    IF Failing(a, "list_sessions") THEN None ELSE Some(<<MasterInfo(a), SessionInfo(a, "s1")>>)

DeviceInfo(a, flow, did) ==
    [id |-> did, volume |-> a[flow][did].volume, is_muted |-> a[flow][did].is_muted]

\* list_playback_devices().unwrap_or_default(), list_recording_devices() likewise
list_devices(a, flow) ==
    IF Failing(a, IF flow = "playback" THEN "list_playback_devices"
                  ELSE "list_recording_devices")
    THEN <<>> ELSE <<DeviceInfo(a, flow, "d1")>>

\* focused_session().ok().flatten()
focused_session(a) ==
    IF Failing(a, "focused_session") \/ a.focus = None THEN None ELSE Some(SessionInfo(a, a.focus[1]))

parse_device_target(device_id) ==
    CASE device_id = "recording:d1" -> <<"recording", "d1">>
      [] device_id = "playback:d1"  -> <<"playback", "d1">>
      [] OTHER                      -> <<"playback", device_id>>

\* Iterator::find
FindFirst(seq, P(_)) ==
    LET hits == SelectSeq(seq, P)
    IN  IF hits = <<>> THEN None ELSE Some(hits[1])

\* the name match written out in main.rs (toggle-mute lookup and sync_feedback_values)
session_matches_name(session, name) ==
    LET target == to_lowercase(name)
    IN  \/ /\ session.process_path # None
           /\ file_stem(session.process_path[1]) # None
           /\ to_lowercase(file_stem(session.process_path[1])[1]) = target
        \/ /\ session.process_name # None
           /\ to_lowercase(strip_exe(session.process_name[1])) = target
        \/ to_lowercase(session.display_name) = target

\* the sessions a by-name call of the backend acts on (set_session_*_by_name)
backend_matches_name(sid, name) ==
    LET target == to_lowercase(name)
    IN  \/ to_lowercase("my-app") = target
        \/ to_lowercase("My App") = target

\* what a target names in the backend: the audio objects a set call acts on
ResolveTarget(a, target) ==
    CASE target.kind = "Master"      -> {<<"master">>}
      [] target.kind = "Focus"       ->
            IF a.focus = None THEN {} ELSE {<<"sessions", a.focus[1]>>}
      [] target.kind = "Session"     ->
            {<<"sessions", s>> : s \in {x \in SessionIds : x = target.id}}
      [] target.kind = "Application" ->
            {<<"sessions", s>> : s \in {x \in SessionIds : backend_matches_name(x, target.id)}}
      [] target.kind = "Device"      ->
            LET p == parse_device_target(target.id)
            IN  IF p[2] = "d1" THEN {<<p[1], "d1">>} ELSE {}
      [] OTHER                       -> {}

SetField(a, objs, field, v) ==
    [a EXCEPT
       !.master   = IF <<"master">> \in objs THEN [@ EXCEPT ![field] = v] ELSE @,
       !.sessions = [s \in DOMAIN @ |->
                        IF <<"sessions", s>> \in objs THEN [@[s] EXCEPT ![field] = v] ELSE @[s]],
       !.playback = [d \in DOMAIN @ |->
                        IF <<"playback", d>> \in objs THEN [@[d] EXCEPT ![field] = v] ELSE @[d]],
       !.recording = [d \in DOMAIN @ |->
                        IF <<"recording", d>> \in objs THEN [@[d] EXCEPT ![field] = v] ELSE @[d]]]

\* AudioBackend::set_*_volume: every variant clamps; Err when the backend is down
\* or nothing is found
set_volume(a, target, volume) ==
    LET objs == ResolveTarget(a, target)
    IN  IF ~a.up \/ objs = {} THEN [ok |-> FALSE, audio |-> a]
        ELSE [ok |-> TRUE, audio |-> SetField(a, objs, "volume", Clamp(volume))]

\* AudioBackend::set_*_mute
set_mute(a, target, muted) ==
    LET objs == ResolveTarget(a, target)
    IN  IF ~a.up \/ objs = {} THEN [ok |-> FALSE, audio |-> a]
        ELSE [ok |-> TRUE, audio |-> SetField(a, objs, "is_muted", muted)]

----------------------------------------------------------------------------
(* midi.rs: MidiManager.  transport.port_present: the output port can be   *)
(* opened; transport.link_ok: the open output connection still writes.     *)

\* a cooldown of one step of the clock, in whole seconds
RECONNECT_COOLDOWN_SECS_2 == FeedbackStep \div 1000

\* one failure more than the budget
MAX_RECONNECT_FAILURES_4 == 3 + 1

RECONNECT_COOLDOWN_SECS == 5
MAX_RECONNECT_FAILURES == 3

MidiManager_new ==
    [input_connection |-> FALSE, output_connections |-> 0,
     active_device |-> None, active_output_device |-> None,
     last_reconnect_attempt |-> None, reconnect_failures |-> 0]

valid_port_id(id) == id \in {"midi:0", "midi:1"}

\* (x * k).round() for x = v / One, v >= 0 and k a divisor of One (127, 16383)
RoundScaled(v, k) == (2 * v + One \div k) \div (2 * (One \div k))

\* the port takes writes on a connection opened now; a port may open and still
\* refuse every write (a transport without the field always takes them)
Writable(tr) == "writable" \in DOMAIN tr => tr.writable

\* connect_output that keeps the failure count of line 98
connect_output_keeping_failures(m, tr, output_device_id) ==
    LET cleared == [m EXCEPT !.output_connections = 0]
    IN  IF ~valid_port_id(output_device_id) \/ ~tr.port_present
        THEN [ok |-> FALSE, midi |-> cleared, transport |-> tr]
        ELSE [ok |-> TRUE,
              midi |-> [cleared EXCEPT !.output_connections = 1,
                                       !.active_output_device = Some(output_device_id)],
              transport |-> [tr EXCEPT !.link_ok = Writable(tr)]]

connect_output(m, tr, output_device_id) ==
    LET cleared == [m EXCEPT !.output_connections = 0]
    IN  IF ~valid_port_id(output_device_id) \/ ~tr.port_present
        THEN [ok |-> FALSE, midi |-> cleared, transport |-> tr]
        ELSE [ok |-> TRUE,
              midi |-> [cleared EXCEPT !.output_connections = 1,
                                       !.active_output_device = Some(output_device_id),
                                       !.reconnect_failures = 0],
              transport |-> [tr EXCEPT !.link_ok = Writable(tr)]]

\* the feedback frame with an unrounded, truncated data byte
feedback_message_truncated(channel, controller, value, msg_type) ==
    <<BitOr(IF msg_type = "Note" THEN 144 ELSE 176, BitAnd(channel, 15)), controller,
      (Clamp(value) * 126) \div One>>

\* the pitch bend frame with the MSB before the LSB
feedback_message_msb_first(channel, controller, value, msg_type) ==
    LET clamped == Clamp(value)
    IN  CASE msg_type = "Note" ->
               <<BitOr(144, BitAnd(channel, 15)), controller, RoundScaled(clamped, 127) % 256>>
          [] msg_type = "PitchBend" ->
               LET value14 == RoundScaled(clamped, 16383) % 65536
               IN  <<BitOr(224, BitAnd(channel, 15)),
                     BitAnd(value14 \div 128, 127), BitAnd(value14, 127)>>
          [] OTHER ->
               <<BitOr(176, BitAnd(channel, 15)), controller, RoundScaled(clamped, 127) % 256>>

feedback_message(channel, controller, value, msg_type) ==
    LET clamped == Clamp(value)
    IN  CASE msg_type = "Note" ->
               <<BitOr(144, BitAnd(channel, 15)), controller, RoundScaled(clamped, 127) % 256>>
          [] msg_type = "PitchBend" ->
               LET value14 == RoundScaled(clamped, 16383) % 65536
               IN  <<BitOr(224, BitAnd(channel, 15)),
                     BitAnd(value14, 127), BitAnd(value14 \div 128, 127)>>
          [] OTHER ->
               <<BitOr(176, BitAnd(channel, 15)), controller, RoundScaled(clamped, 127) % 256>>

\* send_feedback without the active-device test of lines 165-168
send_feedback_any_device(m, tr, t, device_id, channel, controller, value, msg_type) ==
    LET message == feedback_message(channel, controller, value, msg_type)
        nothing == [midi |-> m, transport |-> tr, sent |-> None, calls |-> <<>>]
        first   == IF m.output_connections > 0 THEN <<"send">> ELSE <<>>
    IN
    IF m.active_output_device = None THEN nothing
    ELSE IF m.output_connections > 0 /\ tr.link_ok
         THEN [midi |-> m, transport |-> tr, sent |-> Some(message), calls |-> first]
    ELSE LET should_attempt ==
                 \/ m.last_reconnect_attempt = None
                 \/ (t - m.last_reconnect_attempt[1]) \div 1000 >= RECONNECT_COOLDOWN_SECS
         IN
         IF ~should_attempt \/ m.reconnect_failures >= MAX_RECONNECT_FAILURES
         THEN [nothing EXCEPT !.calls = first]
         ELSE LET m1 == [m EXCEPT !.last_reconnect_attempt = Some(t),
                                  !.output_connections = 0]
                  c  == connect_output(m1, tr, m.active_output_device[1])
              IN  IF c.ok
                  THEN [midi |-> c.midi, transport |-> c.transport,
                        sent |-> IF c.transport.link_ok THEN Some(message) ELSE None,
                        calls |-> first \o <<"connect", "send">>]
                  ELSE [midi |-> [c.midi EXCEPT !.reconnect_failures = @ + 1],
                        transport |-> c.transport, sent |-> None,
                        calls |-> first \o <<"connect">>]

\* the result: the manager and the port afterwards, the frame that reached the
\* wire, if one did, and the calls made on the port ("send": a write on the open
\* connection, "connect": connect_output), in order
send_feedback(m, tr, t, device_id, channel, controller, value, msg_type) ==
    LET message == feedback_message(channel, controller, value, msg_type)
        nothing == [midi |-> m, transport |-> tr, sent |-> None, calls |-> <<>>]
        first   == IF m.output_connections > 0 THEN <<"send">> ELSE <<>>
    IN
    IF m.active_device # Some(device_id) THEN nothing
    ELSE IF m.active_output_device = None THEN nothing
    ELSE IF m.output_connections > 0 /\ tr.link_ok
         THEN [midi |-> m, transport |-> tr, sent |-> Some(message), calls |-> first]
    ELSE LET should_attempt ==
                 \/ m.last_reconnect_attempt = None
                 \/ (t - m.last_reconnect_attempt[1]) \div 1000 >= RECONNECT_COOLDOWN_SECS
         IN
         IF ~should_attempt \/ m.reconnect_failures >= MAX_RECONNECT_FAILURES
         THEN [nothing EXCEPT !.calls = first]
         ELSE LET m1 == [m EXCEPT !.last_reconnect_attempt = Some(t),
                                  !.output_connections = 0]
                  c  == connect_output(m1, tr, m.active_output_device[1])
              IN  IF c.ok
                  THEN [midi |-> c.midi, transport |-> c.transport,
                        sent |-> IF c.transport.link_ok THEN Some(message) ELSE None,
                        calls |-> first \o <<"connect", "send">>]
                  ELSE [midi |-> [c.midi EXCEPT !.reconnect_failures = @ + 1],
                        transport |-> c.transport, sent |-> None,
                        calls |-> first \o <<"connect">>]

\* MidiManager::start_device; in_present: the input port can be opened
start_device(m, tr, in_present, input_device_id, output_device_id) ==
    LET m0 == [m EXCEPT !.input_connection = FALSE]
    IN  IF ~valid_port_id(input_device_id) \/ ~in_present
        THEN [ok |-> FALSE, midi |-> m0, transport |-> tr]
        ELSE LET c == connect_output(m0, tr, output_device_id)
             IN  IF ~c.ok THEN c
                 ELSE [ok |-> TRUE,
                       midi |-> [c.midi EXCEPT !.input_connection = TRUE,
                                               !.active_device = Some(input_device_id)],
                       transport |-> c.transport]

\* MidiManager::stop leaving the output device selected
stop_keeping_output_device(m) ==
    [m EXCEPT !.input_connection = FALSE, !.output_connections = 0]

\* MidiManager::stop
stop(m) ==
    [m EXCEPT !.input_connection = FALSE, !.output_connections = 0,
              !.active_device = None, !.active_output_device = None]

\* what a send does to the hardware: the control shows the frame
Deliver(h, control, sent) == IF sent = None THEN h ELSE Put(h, control, sent[1])

\* the physical control a binding's feedback addresses: the message kind tells a
\* note's light from a controller's
HwControl(binding) ==
    <<binding.device_id, binding.control.msg_type, binding.control.channel,
      binding.control.controller>>

----------------------------------------------------------------------------
(* main.rs: AppState::apply_midi_event, run by the MIDI input callback.    *)
(* One action per lock section or collaborator call; the learn_pending     *)
(* guard taken at line 216 lives until the function returns, except on the *)
(* non-Note learn path, which drops it at line 236.                        *)

REASSERT_DELAY_MS == 20

EvIdle == [event |-> None, binding |-> None, volume |-> 0, muted |-> FALSE]
NoEffect == [audio |-> None, cache |-> None, sent |-> None, note |-> None]
\* accepted: per key, the instant and the value of the last call that returned one
NoCall(accepted) == [called |-> FALSE, accepted |-> accepted]

\* no consume_learned_control call was made yet
NotPolled == [calls |-> 0, ret |-> None]

EvHoldsLearnPending == pcEv \notin {"idle", "learn_clear", "learn_publish"}

LearnedControl(event) ==
    [device_id |-> event.device_id, channel |-> event.channel,
     controller |-> event.controller, msg_type |-> event.msg_type]

EvReturn == pcEv' = "idle" /\ ev' = EvIdle

EvKey == BindingKey_from_event(ev.event[1])

\* lines 133-139 of midi.rs and 215-235: the callback parses the frame, takes the
\* learn_pending lock and branches on it
EvArrive(message) ==
    /\ pcEv = "idle"
    /\ used.events < MaxEvents
    /\ used' = [used EXCEPT !.events = @ + 1]
    /\ midi.input_connection
    /\ midi.active_device # None
    /\ LET parsed == parse_midi_message(midi.active_device[1], message)
       IN  /\ parsed # None
           /\ ev' = [EvIdle EXCEPT !.event = parsed]
           /\ eff' = NoEffect
           /\ res' = NoCall(res.accepted)
           /\ heard' = IF heard = None THEN None
                       ELSE Some(Append(heard[1], [control |-> LearnedControl(parsed[1]),
                                                   at |-> now]))
           /\ IF learn_pending
              THEN IF parsed[1].msg_type = "Note"
                   THEN pcEv' = "learn_note" /\ UNCHANGED learn_pending
                   ELSE pcEv' = "learn_clear" /\ learn_pending' = FALSE
              ELSE pcEv' = "lookup" /\ UNCHANGED learn_pending
    /\ UNCHANGED <<now, appVars, learn_candidate, learned_control, polled, ioVars, tasks,
                   loopVars, ctx>>

\* lines 226-232
EvLearnNote ==
    /\ pcEv = "learn_note"
    /\ learn_candidate' = Some([control |-> LearnedControl(ev.event[1]), time |-> now])
    /\ EvReturn
    /\ UNCHANGED <<now, used, appVars, learn_pending, learned_control, heard, polled, ioVars, tasks,
                   res, eff, loopVars, ctx>>

\* lines 238-241
EvLearnClear ==
    /\ pcEv = "learn_clear"
    /\ learn_candidate' = None
    /\ pcEv' = "learn_publish"
    /\ UNCHANGED <<now, used, appVars, learn_pending, learned_control, heard, polled, ioVars, ev, tasks,
                   res, eff, loopVars, ctx>>

\* the publication without the return of line 248: the event goes on to the lookup
EvLearnPublish_without_return ==
    /\ pcEv = "learn_publish"
    /\ learned_control' = Some(LearnedControl(ev.event[1]))
    /\ pcEv' = "lookup"
    /\ UNCHANGED <<now, used, appVars, learn_pending, learn_candidate, heard, polled, ioVars, ev,
                   tasks, res, eff, loopVars, ctx>>

\* line 243
EvLearnPublish ==
    /\ pcEv = "learn_publish"
    /\ learned_control' = Some(LearnedControl(ev.event[1]))
    /\ EvReturn
    /\ UNCHANGED <<now, used, appVars, learn_pending, learn_candidate, heard, polled, ioVars, tasks,
                   res, eff, loopVars, ctx>>

\* lines 251-274
EvLookup ==
    /\ pcEv = "lookup"
    /\ LET found == IF active_profile = None THEN None
                    ELSE find_binding(active_profile[1], EvKey)
       IN  IF found = None THEN EvReturn
           ELSE pcEv' = "resolve" /\ ev' = [ev EXCEPT !.binding = found]
    /\ UNCHANGED <<now, used, appVars, learnVars, ioVars, tasks, res, eff, loopVars, ctx>>

\* lines 276-288
EvResolve ==
    /\ pcEv = "resolve"
    /\ LET binding == ev.binding[1]
           state   == IF Has(binding_state, EvKey) THEN binding_state[EvKey]
                      ELSE [last_value |-> 0, last_update |-> now]
           r       == apply_midi_event(binding, ev.event[1], state, now)
       IN  /\ binding_state' = Put(binding_state, EvKey, r.state)
           /\ res' = [called |-> TRUE, binding |-> binding, event |-> ev.event[1],
                      had |-> Has(binding_state, EvKey), before |-> state,
                      after |-> r.state, ret |-> r.ret, at |-> now,
                      accepted |-> IF r.ret = None THEN res.accepted
                                   ELSE Put(res.accepted, EvKey,
                                            [at |-> now, value |-> r.ret[1]])]
           /\ IF r.ret = None THEN EvReturn
              ELSE /\ ev' = [ev EXCEPT !.volume = r.ret[1]]
                   /\ pcEv' = IF binding.action = "ToggleMute" THEN "mark" ELSE "vol_set"
    /\ UNCHANGED <<now, used, active_profile, feedback_values, osd_last_update, store, learnVars,
                   ioVars, tasks, eff, loopVars, ctx>>

\* lines 291-330: mark the user activity; a release (value 0) spawns the delayed
\* re-assertion and returns
EvMark ==
    /\ pcEv = "mark"
    /\ binding_state' = IF Has(binding_state, EvKey)
                        THEN [binding_state EXCEPT ![EvKey].last_update = now]
                        ELSE binding_state
    /\ IF ev.event[1].value = 0
       THEN /\ tasks' = tasks \cup {[kind |-> "reassert", binding |-> ev.binding[1],
                                    key |-> EvKey, due |-> now + REASSERT_DELAY_MS]}
            /\ EvReturn
       ELSE /\ UNCHANGED tasks
            /\ UNCHANGED ev
            /\ pcEv' = "mute_read"
    /\ UNCHANGED <<now, used, active_profile, feedback_values, osd_last_update, store, learnVars,
                   ioVars, res, eff, loopVars, ctx>>

\* Option<bool>: the target's current mute state as lines 332-407 look it up
current_muted(a, target) ==
    LET sessions == list_sessions(a)
    IN
    CASE target.kind = "Master" ->
           LET master == FindFirst(sessions[1], LAMBDA s : s.is_master)
           IN  Some(IF master = None THEN FALSE ELSE master[1].is_muted)
      [] target.kind = "Focus" ->
           LET focused == focused_session(a)
           IN  IF focused = None THEN None ELSE Some(focused[1].is_muted)
      [] target.kind = "Application" ->
           LET session == FindFirst(sessions[1],
                                    LAMBDA s : session_matches_name(s, target.id))
           IN  IF session = None THEN None ELSE Some(session[1].is_muted)
      [] target.kind = "Device" ->
           LET p == parse_device_target(target.id)
               device == FindFirst(list_devices(a, p[1]), LAMBDA d : d.id = p[2])
           IN  IF device = None THEN None ELSE Some(device[1].is_muted)
      [] OTHER -> None

Integration_payload(binding, action, value) ==
    [name |-> "integration_binding_triggered", binding_id |-> binding.id,
     action |-> action, value |-> value]

\* lines 332-438, up to the set call: read the current mute state and invert it.
\* An Integration target only raises its notification; Session and Unset fall
\* into the catch-all arm.
EvMuteRead ==
    /\ pcEv = "mute_read"
    /\ LET target == ev.binding[1].target
       IN
       CASE target.kind \in {"Master", "Application"} /\ list_sessions(audio) = None ->
              EvReturn /\ UNCHANGED eff
         [] target.kind = "Integration" ->
              LET current_val == IF Has(feedback_values, EvKey)
                                 THEN feedback_values[EvKey] ELSE 0
                  new_muted   == ~(2 * current_val > One)
              IN  /\ eff' = [eff EXCEPT !.note = Some(Integration_payload(
                                 ev.binding[1], "ToggleMute", IF new_muted THEN One ELSE 0))]
                  /\ EvReturn
         [] OTHER ->
              LET cur == current_muted(audio, target)
              IN  /\ UNCHANGED eff
                  /\ IF cur = None THEN EvReturn
                     ELSE pcEv' = "mute_set" /\ ev' = [ev EXCEPT !.muted = ~cur[1]]
    /\ UNCHANGED <<now, used, appVars, learnVars, ioVars, tasks, res, loopVars, ctx>>

\* the set_*_mute call of lines 338, 346, 379, 400
EvMuteSet ==
    /\ pcEv = "mute_set"
    /\ LET r == set_mute(audio, ev.binding[1].target, ev.muted)
       IN  IF r.ok
           THEN /\ audio' = r.audio
                /\ eff' = [eff EXCEPT !.audio = Some([op |-> "set_mute",
                                target |-> ev.binding[1].target, value |-> ev.muted])]
                /\ pcEv' = "mute_osd"
                /\ UNCHANGED ev
           ELSE UNCHANGED <<audio, eff>> /\ EvReturn
    /\ UNCHANGED <<now, used, appVars, learnVars, midi, transport, hw, tasks, res, loopVars, ctx>>

\* lines 440-442
EvMuteOsd ==
    /\ pcEv = "mute_osd"
    /\ osd_last_update' = Some(now)
    /\ pcEv' = "mute_cache"
    /\ UNCHANGED <<now, used, active_profile, binding_state, feedback_values, store, learnVars,
                   ioVars, ev, tasks, res, eff, loopVars, ctx>>

\* lines 444-446
EvMuteCache ==
    /\ pcEv = "mute_cache"
    /\ feedback_values' = Put(feedback_values, EvKey, IF ev.muted THEN One ELSE 0)
    /\ eff' = [eff EXCEPT !.cache = Some([key |-> EvKey, at |-> now,
                                          value |-> IF ev.muted THEN One ELSE 0])]
    /\ pcEv' = "mute_send"
    /\ UNCHANGED <<now, used, active_profile, binding_state, osd_last_update, store, learnVars,
                   ioVars, ev, tasks, res, loopVars, ctx>>

EvSendValue(value) ==
    LET b == ev.binding[1]
        r == send_feedback(midi, transport, now, b.device_id, b.control.channel,
                           b.control.controller, value, b.control.msg_type)
    IN  /\ midi' = r.midi
        /\ transport' = r.transport
        /\ hw' = Deliver(hw, HwControl(b), r.sent)
        /\ eff' = [eff EXCEPT !.sent = r.sent]

\* lines 448-457
EvMuteSend ==
    /\ pcEv = "mute_send"
    /\ EvSendValue(IF ev.muted THEN One ELSE 0)
    /\ pcEv' = "mute_notify"
    /\ UNCHANGED <<now, used, appVars, learnVars, audio, ev, tasks, res, loopVars, ctx>>

\* lines 459-493
EvMuteNotify ==
    /\ pcEv = "mute_notify"
    /\ eff' = [eff EXCEPT !.note = Some([name |-> "mute_update",
                   target |-> ev.binding[1].target, muted |-> ev.muted,
                   focus_session |-> IF ev.binding[1].target.kind = "Focus"
                                     THEN focused_session(audio) ELSE None])]
    /\ EvReturn
    /\ UNCHANGED <<now, used, appVars, learnVars, ioVars, tasks, res, loopVars, ctx>>

\* lines 496-538: the set_*_volume call; Unset returns, Integration notifies
EvVolSet ==
    /\ pcEv = "vol_set"
    /\ LET b == ev.binding[1]
       IN
       CASE b.target.kind = "Unset" -> UNCHANGED <<audio, eff>> /\ EvReturn
         [] b.target.kind = "Integration" ->
              /\ eff' = [eff EXCEPT !.note = Some(Integration_payload(b, "Volume", ev.volume))]
              /\ UNCHANGED audio
              /\ EvReturn
         [] OTHER ->
              LET r == set_volume(audio, b.target, ev.volume)
              IN  IF r.ok
                  THEN /\ audio' = r.audio
                       /\ eff' = [eff EXCEPT !.audio = Some([op |-> "set_volume",
                                       target |-> b.target, value |-> ev.volume])]
                       /\ pcEv' = "vol_cache"
                       /\ UNCHANGED ev
                  ELSE UNCHANGED <<audio, eff>> /\ EvReturn
    /\ UNCHANGED <<now, used, appVars, learnVars, midi, transport, hw, tasks, res, loopVars, ctx>>

\* lines 540-542
EvVolCache ==
    /\ pcEv = "vol_cache"
    /\ feedback_values' = Put(feedback_values, EvKey, ev.volume)
    /\ eff' = [eff EXCEPT !.cache = Some([key |-> EvKey, at |-> now, value |-> ev.volume])]
    /\ pcEv' = "vol_osd"
    /\ UNCHANGED <<now, used, active_profile, binding_state, osd_last_update, store, learnVars,
                   ioVars, ev, tasks, res, loopVars, ctx>>

\* lines 544-546
EvVolOsd ==
    /\ pcEv = "vol_osd"
    /\ osd_last_update' = Some(now)
    /\ pcEv' = "vol_send"
    /\ UNCHANGED <<now, used, active_profile, binding_state, feedback_values, store, learnVars,
                   ioVars, ev, tasks, res, eff, loopVars, ctx>>

\* lines 548-556
EvVolSend ==
    /\ pcEv = "vol_send"
    /\ EvSendValue(ev.volume)
    /\ pcEv' = "vol_notify"
    /\ UNCHANGED <<now, used, appVars, learnVars, audio, ev, tasks, res, loopVars, ctx>>

\* lines 558-589
EvVolNotify ==
    /\ pcEv = "vol_notify"
    /\ eff' = [eff EXCEPT !.note = Some([name |-> "volume_update",
                   target |-> ev.binding[1].target, volume |-> ev.volume,
                   binding_id |-> ev.binding[1].id,
                   focus_session |-> IF ev.binding[1].target.kind = "Focus"
                                     THEN focused_session(audio) ELSE None])]
    /\ EvReturn
    /\ UNCHANGED <<now, used, appVars, learnVars, ioVars, tasks, res, loopVars, ctx>>

\* lines 312-328: the spawned task sleeps 20 ms, then re-sends the cached value
\* (the feedback lock is held while the midi lock is taken)
Reassert(task) ==
    /\ task \in tasks
    /\ task.kind = "reassert"
    /\ now >= task.due
    /\ tasks' = tasks \ {task}
    /\ LET b == task.binding
           current_val == IF Has(feedback_values, task.key)
                          THEN feedback_values[task.key] ELSE 0
           r == send_feedback(midi, transport, now, b.device_id, b.control.channel,
                              b.control.controller, current_val, b.control.msg_type)
       IN  /\ midi' = r.midi
           /\ transport' = r.transport
           /\ hw' = Deliver(hw, HwControl(b), r.sent)
    /\ UNCHANGED <<now, used, appVars, learnVars, audio, pcEv, ev, res, eff, loopVars, ctx>>

----------------------------------------------------------------------------
(* main.rs: AppState::sync_feedback_values *)

Bit(b) == IF b THEN One ELSE 0

\* lines 605-714: the value one binding contributes; sessions and the device
\* lists were read before the feedback lock was taken, the focused session is
\* read under it
sync_value(binding, sessions, playback_devices, recording_devices, a) ==
    LET target == binding.target
        mute   == binding.action = "ToggleMute"
        pick(info) == IF info = None THEN None
                      ELSE Some(IF mute THEN Bit(info[1].is_muted) ELSE info[1].volume)
    IN
    CASE target.kind = "Master" ->
           pick(FindFirst(sessions, LAMBDA s : s.is_master))
      [] target.kind = "Focus" ->
           IF mute THEN pick(focused_session(a)) ELSE None
      [] target.kind = "Session" ->
           pick(FindFirst(sessions, LAMBDA s : s.id = target.id))
      [] target.kind = "Application" ->
           pick(FindFirst(sessions, LAMBDA s : session_matches_name(s, target.id)))
      [] target.kind = "Device" ->
           LET p == parse_device_target(target.id)
           IN  pick(FindFirst(IF p[1] = "playback" THEN playback_devices
                              ELSE recording_devices,
                              LAMBDA d : d.id = p[2]))
      [] OTHER -> None

\* lines 604-719: the loop over profile.bindings, from binding i on
RECURSIVE sync_write(_, _, _, _, _, _, _)
sync_write(feedback, bindings, i, sessions, playback_devices, recording_devices, a) ==
    IF i > Len(bindings) THEN feedback
    ELSE LET value == sync_value(bindings[i], sessions, playback_devices,
                                 recording_devices, a)
         IN  sync_write(IF value = None THEN feedback
                        ELSE Put(feedback, BindingKey_from_binding(bindings[i]), value[1]),
                        bindings, i + 1, sessions, playback_devices, recording_devices, a)

----------------------------------------------------------------------------
(* main.rs, lines 914-998: the reconciliation loop *)

\* a grace period of one clock step
LEARN_GRACE_MS_50 == ClockStep

\* a grace period of two clock steps, shorter than the 150 ms of the loop
LEARN_GRACE_MS_100 == 2 * ClockStep

LEARN_GRACE_MS == 150
OSD_HIDE_MS == 1200

LpIdle == [commit |-> None, profile |-> None, sessions |-> <<>>,
           playback |-> <<>>, recording |-> <<>>, feedback |-> EmptyMap]

\* lines 919-927: take an expired candidate
LoopCandidate ==
    /\ pcLoop = "candidate"
    /\ IF learn_candidate # None /\ now - learn_candidate[1].time > LEARN_GRACE_MS
       THEN /\ lp' = [lp EXCEPT !.commit = Some(learn_candidate[1].control)]
            /\ learn_candidate' = None
            /\ pcLoop' = "commit"
       ELSE /\ UNCHANGED <<lp, learn_candidate>>
            /\ pcLoop' = "profile"
    /\ UNCHANGED <<now, used, appVars, learn_pending, learned_control, heard, polled, ioVars, evVars, ctx>>

\* lines 928-937: publish it if learn mode is still armed
LoopCommit ==
    /\ pcLoop = "commit"
    /\ ~EvHoldsLearnPending
    /\ IF learn_pending
       THEN learn_pending' = FALSE /\ learned_control' = lp.commit
       ELSE UNCHANGED <<learn_pending, learned_control>>
    /\ lp' = [lp EXCEPT !.commit = None]
    /\ pcLoop' = "profile"
    /\ UNCHANGED <<now, used, appVars, learn_candidate, heard, polled, ioVars, evVars, ctx>>

\* lines 939-944
LoopProfile ==
    /\ pcLoop = "profile"
    /\ lp' = [lp EXCEPT !.profile = active_profile]
    /\ pcLoop' = IF active_profile = None THEN "osd_check" ELSE "sync_sessions"
    /\ UNCHANGED <<now, used, appVars, learnVars, ioVars, evVars, ctx>>

\* line 593: list_sessions; on Err sync_feedback_values returns
LoopSyncSessions ==
    /\ pcLoop = "sync_sessions"
    /\ LET sessions == list_sessions(audio)
       IN  IF sessions = None
           THEN pcLoop' = "snapshot" /\ UNCHANGED lp
           ELSE pcLoop' = "sync_devices" /\ lp' = [lp EXCEPT !.sessions = sessions[1]]
    /\ UNCHANGED <<now, used, appVars, learnVars, ioVars, evVars, ctx>>

\* lines 597-598
LoopSyncDevices ==
    /\ pcLoop = "sync_devices"
    /\ lp' = [lp EXCEPT !.playback = list_devices(audio, "playback"),
                        !.recording = list_devices(audio, "recording")]
    /\ pcLoop' = "sync_write"
    /\ UNCHANGED <<now, used, appVars, learnVars, ioVars, evVars, ctx>>

\* lines 599-719, under the feedback lock
LoopSyncWrite ==
    /\ pcLoop = "sync_write"
    /\ feedback_values' = sync_write(feedback_values, lp.profile[1].bindings, 1,
                                     lp.sessions, lp.playback, lp.recording, audio)
    /\ lp' = [lp EXCEPT !.sessions = <<>>, !.playback = <<>>, !.recording = <<>>]
    /\ pcLoop' = "snapshot"
    /\ UNCHANGED <<now, used, active_profile, binding_state, osd_last_update, store, learnVars,
                   ioVars, evVars, ctx>>

\* lines 946-950
LoopSnapshot ==
    /\ pcLoop = "snapshot"
    /\ lp' = [lp EXCEPT !.feedback = feedback_values]
    /\ pcLoop' = "emit"
    /\ UNCHANGED <<now, used, appVars, learnVars, ioVars, evVars, ctx>>

\* lines 953-968 from binding i on: [midi, transport, hw] after the sends
RECURSIVE emit_all(_, _, _, _, _, _, _)
emit_all(m, tr, h, t, bindings, i, feedback) ==
    IF i > Len(bindings) THEN [midi |-> m, transport |-> tr, hw |-> h]
    ELSE LET b   == bindings[i]
             key == BindingKey_from_binding(b)
         IN  IF ~Has(feedback, key)
             THEN emit_all(m, tr, h, t, bindings, i + 1, feedback)
             ELSE LET r == send_feedback(m, tr, t, b.device_id, b.control.channel,
                                         b.control.controller, feedback[key],
                                         b.control.msg_type)
                  IN  emit_all(r.midi, r.transport, Deliver(h, HwControl(b), r.sent), t,
                               bindings, i + 1, feedback)

\* lines 952-969, under the midi lock
LoopEmit ==
    /\ pcLoop = "emit"
    /\ LET r == emit_all(midi, transport, hw, now, lp.profile[1].bindings, 1, lp.feedback)
       IN  midi' = r.midi /\ transport' = r.transport /\ hw' = r.hw
    /\ lp' = [lp EXCEPT !.profile = None, !.feedback = EmptyMap]
    /\ pcLoop' = "osd_check"
    /\ UNCHANGED <<now, used, appVars, learnVars, audio, evVars, ctx>>

\* lines 972-985 (the OSD is enabled by default)
LoopOsdCheck ==
    /\ pcLoop = "osd_check"
    /\ LET should_hide == osd_last_update # None
                          /\ now - osd_last_update[1] > OSD_HIDE_MS
       IN  IF should_hide THEN pcLoop' = "osd_hide" ELSE pcLoop' = "sleep"
    /\ lp' = [lp EXCEPT !.profile = None]
    /\ UNCHANGED <<now, used, appVars, learnVars, ioVars, evVars, ctx>>

\* lines 986-993
LoopOsdHide ==
    /\ pcLoop = "osd_hide"
    /\ osd_last_update' = None
    /\ pcLoop' = "sleep"
    /\ UNCHANGED <<now, used, active_profile, binding_state, feedback_values, store, learnVars,
                   ioVars, evVars, lp, ctx>>

\* line 996: sleep(50 ms) ends; how long it lasted only bounds how often a pass
\* starts, so the next pass may start at any time
LoopSleep ==
    /\ pcLoop = "sleep"
    /\ pcLoop' = "candidate"
    /\ UNCHANGED <<now, used, appVars, learnVars, ioVars, evVars, lp, ctx>>

----------------------------------------------------------------------------
(* Commands of the UI (commands/midi.rs, commands/profiles.rs,              *)
(* commands/bindings.rs).  A command runs on its own thread; used.cmds     *)
(* counts the commands issued, up to the bound MaxCmds.                     *)

\* ProfileStore::load_all: the records of profiles.json, or Err (None) when an
\* entry of the file does not parse as a Profile (here: it lacks its bindings)
load_all(st) ==
    IF \E i \in 1..Len(st) : "bindings" \notin DOMAIN st[i] THEN None ELSE Some(st)

\* ProfileStore::save_profile: replace the record of that name, or append
store_save(st, profile) ==
    IF \E i \in 1..Len(st) : st[i].name = profile.name
    THEN LET i == CHOOSE j \in 1..Len(st) :
                      /\ st[j].name = profile.name
                      /\ \A k \in 1..(j - 1) : st[k].name # profile.name
         IN  [st EXCEPT ![i] = profile]
    ELSE Append(st, profile)

\* ProfileStore::load_profile
store_load(st, name) == FindFirst(st, LAMBDA p : p.name = name)

\* sync_feedback_values as a command calls it: the three listings, then the
\* writes under the feedback lock
sync_feedback_values(feedback, profile, a) ==
    IF list_sessions(a) = None THEN feedback
    ELSE sync_write(feedback, profile.bindings, 1, list_sessions(a)[1],
                    list_devices(a, "playback"), list_devices(a, "recording"), a)

\* commands/midi.rs, start_midi_device
CmdStartMidiDevice(input_device_id, output_device_id) ==
    /\ used.cmds < MaxCmds
    /\ used' = [used EXCEPT !.cmds = @ + 1]
    /\ LET r == start_device(midi, transport, TRUE, input_device_id, output_device_id)
       IN  midi' = r.midi /\ transport' = r.transport
    /\ UNCHANGED <<now, appVars, learnVars, audio, hw, evVars, loopVars, ctx>>

\* commands/midi.rs, stop_midi_device
CmdStopMidiDevice ==
    /\ used.cmds < MaxCmds
    /\ used' = [used EXCEPT !.cmds = @ + 1]
    /\ midi' = stop(midi)
    /\ UNCHANGED <<now, appVars, learnVars, audio, transport, hw, evVars, loopVars, ctx>>

\* commands/midi.rs, start_midi_learn, lines 56-59: arm under the learn_pending
\* lock; the events heard are counted from here
CmdStartMidiLearn ==
    /\ used.cmds < MaxCmds
    /\ used' = [used EXCEPT !.cmds = @ + 1]
    /\ ~EvHoldsLearnPending
    /\ learn_pending' = TRUE
    /\ heard' = Some(<<>>)
    /\ tasks' = tasks \cup {[kind |-> "learn_reset", binding |-> None, key |-> None,
                              due |-> now]}
    /\ UNCHANGED <<now, appVars, learn_candidate, learned_control, polled, ioVars, pcEv, ev,
                   res, eff, loopVars, ctx>>

\* lines 60-63: then forget the control learned before, under its own lock
LearnReset(task) ==
    /\ task \in tasks
    /\ task.kind = "learn_reset"
    /\ learned_control' = None
    /\ tasks' = tasks \ {task}
    /\ UNCHANGED <<now, used, appVars, learn_pending, learn_candidate, heard, polled, ioVars,
                   pcEv, ev, res, eff, loopVars, ctx>>

\* Option::take that leaves the value in place
take_as_clone(slot) == [ret |-> slot, slot |-> slot]

\* Option::take: the value moves out and the slot is left empty
take(slot) == [ret |-> slot, slot |-> None]

\* commands/midi.rs, consume_learned_control
CmdConsumeLearnedControl ==
    /\ used.cmds < MaxCmds
    /\ used' = [used EXCEPT !.cmds = @ + 1]
    /\ LET r == take(learned_control)
       IN  /\ learned_control' = r.slot
           /\ polled' = [calls |-> polled.calls + 1, ret |-> r.ret]
    /\ UNCHANGED <<now, appVars, learn_pending, learn_candidate, heard, ioVars, evVars,
                   loopVars, ctx>>

\* commands/profiles.rs, save_profile
CmdSaveProfile(profile) ==
    /\ used.cmds < MaxCmds
    /\ used' = [used EXCEPT !.cmds = @ + 1]
    /\ IF load_all(store) = None
       THEN UNCHANGED <<store, active_profile, feedback_values>>
       ELSE /\ store' = store_save(store, profile)
            /\ active_profile' = Some(profile)
            /\ feedback_values' = sync_feedback_values(feedback_values, profile, audio)
    /\ UNCHANGED <<now, binding_state, osd_last_update, learnVars, ioVars, evVars, loopVars, ctx>>

\* commands/profiles.rs, load_profile
CmdLoadProfile(name) ==
    /\ used.cmds < MaxCmds
    /\ used' = [used EXCEPT !.cmds = @ + 1]
    /\ LET profile == IF load_all(store) = None THEN None ELSE store_load(store, name)
       IN  IF profile = None
           THEN UNCHANGED <<active_profile, feedback_values>>
           ELSE /\ active_profile' = profile
                /\ feedback_values' = sync_feedback_values(feedback_values, profile[1], audio)
    /\ UNCHANGED <<now, binding_state, osd_last_update, store, learnVars, ioVars, evVars,
                   loopVars, ctx>>

\* Vec::retain followed by push, as add_binding does it
retain_and_push(bindings, binding) ==
    Append(SelectSeq(bindings,
                     LAMBDA existing : ~(/\ existing.device_id = binding.device_id
                                         /\ existing.control = binding.control)),
           binding)

\* commands/bindings.rs, add_binding
CmdAddBinding(binding) ==
    /\ used.cmds < MaxCmds
    /\ used' = [used EXCEPT !.cmds = @ + 1]
    /\ LET profile == IF active_profile = None
                      THEN [name |-> "Default", bindings |-> <<>>]
                      ELSE active_profile[1]
           updated == [profile EXCEPT !.bindings = retain_and_push(@, binding)]
       IN  /\ active_profile' = Some(updated)
           /\ feedback_values' = sync_feedback_values(feedback_values, updated, audio)
    /\ UNCHANGED <<now, binding_state, osd_last_update, store, learnVars, ioVars, evVars,
                   loopVars, ctx>>

REMOVE_GRACE_MS == 100

\* commands/bindings.rs, remove_binding, lines 27-45: drop the binding from the
\* active profile and persist the profile
CmdRemoveBinding(binding) ==
    /\ used.cmds < MaxCmds
    /\ used' = [used EXCEPT !.cmds = @ + 1]
    /\ IF active_profile = None THEN UNCHANGED <<active_profile, store>>
       ELSE LET updated == [active_profile[1] EXCEPT !.bindings =
                               SelectSeq(@, LAMBDA existing : existing.id # binding.id)]
            IN  /\ active_profile' = Some(updated)
                /\ IF load_all(store) = None THEN UNCHANGED store
                   ELSE store' = store_save(store, updated)
    /\ IF active_profile # None /\ load_all(store) = None
       THEN UNCHANGED tasks
       ELSE tasks' = tasks \cup {[kind |-> "remove_clear", binding |-> binding,
                                   key |-> BindingKey_from_binding(binding), due |-> now]}
    /\ UNCHANGED <<now, binding_state, feedback_values, osd_last_update, learnVars, ioVars,
                   pcEv, ev, res, eff, loopVars, ctx>>

\* lines 47-57: clear the key's transient state, then sleep
RemoveClear(task) ==
    /\ task \in tasks
    /\ task.kind = "remove_clear"
    /\ feedback_values' = Del(feedback_values, task.key)
    /\ binding_state' = Del(binding_state, task.key)
    /\ tasks' = (tasks \ {task})
                 \cup {[task EXCEPT !.kind = "remove_send", !.due = now + REMOVE_GRACE_MS]}
    /\ UNCHANGED <<now, used, active_profile, osd_last_update, store, learnVars, ioVars,
                   pcEv, ev, res, eff, loopVars, ctx>>

\* lines 59-68: after the sleep, send 0.0 to the control
RemoveSend(task) ==
    /\ task \in tasks
    /\ task.kind = "remove_send"
    /\ now >= task.due
    /\ tasks' = tasks \ {task}
    /\ LET b == task.binding
           r == send_feedback(midi, transport, now, b.device_id, b.control.channel,
                              b.control.controller, 0, b.control.msg_type)
       IN  /\ midi' = r.midi
           /\ transport' = r.transport
           /\ hw' = Deliver(hw, HwControl(b), r.sent)
    /\ UNCHANGED <<now, used, appVars, learnVars, audio, pcEv, ev, res, eff, loopVars, ctx>>

----------------------------------------------------------------------------
(* Time *)

Tick(limit) ==
    /\ now + ClockStep <= limit
    /\ now' = now + ClockStep
    /\ UNCHANGED <<used, appVars, learnVars, ioVars, evVars, loopVars, ctx>>

----------------------------------------------------------------------------
(* The state after construction (main.rs, lines 795-810) *)

AudioInit ==
    [up |-> TRUE,
     master |-> [volume |-> 0, is_muted |-> FALSE],
     sessions |-> [s \in SessionIds |-> [volume |-> 0, is_muted |-> FALSE]],
     focus |-> None,
     playback |-> [d \in {"d1"} |-> [volume |-> 0, is_muted |-> FALSE]],
     recording |-> [d \in {"d1"} |-> [volume |-> 0, is_muted |-> FALSE]]]

\* The threads of control that share AppState: the MIDI input callback
\* (commands/midi.rs:30-34), the reconciliation loop (main.rs:914), a delayed
\* re-assertion task (main.rs:312), the main thread running the commands that
\* are not async, and the worker running the async command remove_binding.
Contexts == {"callback", "loop", "task", "main", "worker"}

Resting == [path |-> "rest", pc |-> 1]

CtxIdle == [c \in Contexts |-> Resting]

Init ==
    /\ now = 0
    /\ used = [cmds |-> 0, events |-> 0]
    /\ active_profile = None
    /\ binding_state = EmptyMap
    /\ feedback_values = EmptyMap
    /\ learn_pending = FALSE
    /\ learn_candidate = None
    /\ learned_control = None
    /\ heard = None
    /\ polled = NotPolled
    /\ ctx = CtxIdle
    /\ osd_last_update = None
    /\ store = <<>>
    /\ audio = AudioInit
    /\ midi = MidiManager_new
    /\ transport = [port_present |-> TRUE, link_ok |-> FALSE]
    /\ hw = EmptyMap
    /\ pcEv = "idle"
    /\ ev = EvIdle
    /\ tasks = {}
    /\ pcLoop = "candidate"
    /\ lp = LpIdle
    /\ res = NoCall(EmptyMap)
    /\ eff = NoEffect

----------------------------------------------------------------------------
(* Binding dispatch: a profile with a debounced absolute volume fader on    *)
(* the master volume and a mute button on the master mute.                  *)

Binding(id, channel, controller, msg_type, target, action, mode, deadzone, debounce_ms) ==
    [id |-> id, device_id |-> "midi:0",
     control |-> [channel |-> channel, controller |-> controller, msg_type |-> msg_type],
     target |-> target, action |-> action, mode |-> mode,
     deadzone |-> deadzone, debounce_ms |-> debounce_ms]

Target(kind, id) == [kind |-> kind, id |-> id]

Fader == Binding("fader", 1, 7, "ControlChange", Target("Master", ""), "Volume",
                 "Absolute", 0, 100)
Button == Binding("button", 1, 9, "Note", Target("Master", ""), "ToggleMute",
                  "Absolute", 0, 0)

DispatchProfiles == {[name |-> "Default", bindings |-> <<Fader, Button>>]}

DispatchMessages ==
    {<<177, 7, 127>>, <<177, 7, 64>>, <<145, 9, 127>>, <<129, 9, 0>>}

EvDispatch ==
    \/ EvLookup \/ EvResolve \/ EvMark
    \/ EvMuteRead \/ EvMuteSet \/ EvMuteOsd \/ EvMuteCache \/ EvMuteSend \/ EvMuteNotify
    \/ EvVolSet \/ EvVolCache \/ EvVolOsd \/ EvVolSend \/ EvVolNotify

LoopPass ==
    \/ LoopCandidate \/ LoopProfile \/ LoopSyncSessions \/ LoopSyncDevices
    \/ LoopSyncWrite \/ LoopSnapshot \/ LoopEmit \/ LoopOsdCheck \/ LoopSleep

NextDispatch ==
    \/ \E message \in DispatchMessages : EvArrive(message)
    \/ EvDispatch
    \/ \E task \in tasks : Reassert(task)
    \/ LoopPass
    \/ CmdStartMidiDevice("midi:0", "midi:0")
    \/ \E profile \in DispatchProfiles : CmdSaveProfile(profile)
    \/ Tick(MaxTime)

Spec == Init /\ [][NextDispatch]_vars

\* the binding and the event of the running callback
EvBinding == ev.binding[1]
EvEvent == ev.event[1]

\* the output side of the active device works
OutputHealthy(device_id) ==
    /\ midi.active_device = Some(device_id)
    /\ midi.active_output_device # None
    /\ midi.output_connections > 0
    /\ transport.link_ok

\* the running callback handles an accepted 7-bit ControlChange on an absolute
\* ControlChange volume binding of the master
AbsoluteCcOnMaster ==
    /\ ev.binding # None
    /\ EvBinding.mode = "Absolute"
    /\ EvBinding.action = "Volume"
    /\ EvBinding.target.kind = "Master"
    /\ EvBinding.control.msg_type = "ControlChange"
    /\ EvBinding.control.controller # 224
    /\ EvEvent.msg_type = "ControlChange"
    /\ EvEvent.value \in 0..127
    /\ res.called /\ res.ret # None

\* C1: with learn mode not armed, an accepted absolute ControlChange of raw value
\* r on a ControlChange volume binding of the master resolves to r/127; the
\* set call leaves the master volume at r/127, the cache write leaves
\* Feedback Cache[key] = r/127, and the send puts the frame
\* <<0xB0 | channel, controller, r>> on the wire of the active device.
C1_AbsoluteEndToEnd ==
    /\ [](pcEv \in {"vol_set", "vol_cache", "vol_osd", "vol_send", "vol_notify"}
            /\ AbsoluteCcOnMaster
          => ev.volume = EvEvent.value * (One \div 127))
    /\ [][(pcEv = "resolve" /\ pcEv' # pcEv /\ res'.ret # None
              /\ EvBinding.action = "Volume")
           => pcEv' = "vol_set"]_vars
    /\ [][(AbsoluteCcOnMaster /\ pcEv = "vol_set" /\ pcEv' # pcEv)
           => /\ pcEv' = "vol_cache"
              /\ audio'.master.volume = EvEvent.value * (One \div 127)]_vars
    /\ [][(AbsoluteCcOnMaster /\ pcEv = "vol_cache" /\ pcEv' # pcEv)
           => Get(feedback_values', EvKey) = Some(EvEvent.value * (One \div 127))]_vars
    /\ [][(AbsoluteCcOnMaster /\ pcEv = "vol_send" /\ pcEv' # pcEv
              /\ OutputHealthy(EvBinding.device_id))
           => Get(hw', HwControl(EvBinding)) = Some(<<176 + EvBinding.control.channel,
                                      EvBinding.control.controller, EvEvent.value>>)]_vars

\* C1 witness: the ControlChange of value 127 on (channel 1, controller 7) has
\* been carried through: master volume 1.0, cache 1.0, frame B1 07 7F on the wire
C1_Witness ==
    /\ pcEv = "vol_notify"
    /\ AbsoluteCcOnMaster
    /\ EvKey = <<"midi:0", 1, 7>>
    /\ EvEvent.value = 127
    /\ audio.master.volume = One
    /\ feedback_values[EvKey] = One
    /\ hw[HwControl(EvBinding)] = <<177, 7, 127>>
    /\ eff.sent = Some(<<177, 7, 127>>)

\* C4: when a binding has debounce_ms = D > 0 and an event on its key K is
\* resolved less than D ms after the last accepted event on K, the resolver
\* returns no value, BindingState[K] keeps last_value and last_update, and the
\* callback returns at once: the audio state, the Feedback Cache and the
\* hardware feedback stay as they were.
C4_DebounceSuppresses ==
    [][(/\ pcEv = "resolve" /\ pcEv' # pcEv
        /\ EvBinding.debounce_ms > 0
        /\ Has(res.accepted, EvKey)
        /\ now - res.accepted[EvKey].at < EvBinding.debounce_ms)
       => /\ res'.ret = None
          /\ Has(binding_state, EvKey)
          /\ binding_state' = binding_state
          /\ pcEv' = "idle"
          /\ audio' = audio
          /\ feedback_values' = feedback_values
          /\ hw' = hw
          /\ eff' = NoEffect]_vars

\* C4 witness: an event resolved 50 ms after an accepted one on the fader
\* (debounce 100 ms) was suppressed
C4_Witness ==
    /\ pcEv = "idle"
    /\ res.called
    /\ res.binding.debounce_ms = 100
    /\ Has(res.accepted, BindingKey_from_binding(res.binding))
    /\ res.at - res.accepted[BindingKey_from_binding(res.binding)].at = 50
    /\ res.ret = None
    /\ res.after = res.before

\* the guard of update_midi_feedback and set_binding_feedback: a key counts as
\* touched by the user for this long after BindingState.last_update
USER_ACTIVE_MS == 500

\* the running or last callback toggled a mute and wrote the result to the cache
ToggleWritten ==
    /\ eff.audio # None /\ eff.audio[1].op = "set_mute"
    /\ eff.cache # None

\* C2: once a manual toggle on a ToggleMute binding has written its value into
\* Feedback Cache[K], the cache write of a reconciliation pass that happens
\* less than 500 ms after the toggle leaves Feedback Cache[K] at that value.
C2_ToggleGuard ==
    [][(/\ pcLoop = "sync_write" /\ pcLoop' # pcLoop
        /\ ToggleWritten
        /\ now - eff.cache[1].at < USER_ACTIVE_MS)
       => Get(feedback_values', eff.cache[1].key) = Some(eff.cache[1].value)]_vars

----------------------------------------------------------------------------
(* Value shaping: the device is started and a profile is active that binds  *)
(* one control of each shape to the master volume; the frames carry data    *)
(* bytes inside and outside the 7-bit range.                                *)

Knob == Binding("knob", 1, 7, "ControlChange", Target("Master", ""), "Volume",
                "Absolute", 0, 0)
Slider == Binding("slider", 1, 8, "ControlChange", Target("Master", ""), "Volume",
                  "Absolute", 2 * (One \div 127), 0)
Encoder == Binding("encoder", 1, 10, "ControlChange", Target("Master", ""), "Volume",
                   "Relative", 0, 0)
Wheel == Binding("wheel", 1, 224, "PitchBend", Target("Master", ""), "Volume",
                 "Absolute", 0, 0)

ShapeProfile == [name |-> "Shapes", bindings |-> <<Knob, Slider, Encoder, Wheel>>]

ShapeMessages ==
    {<<177, 7, 0>>, <<177, 7, 64>>, <<177, 7, 127>>, <<177, 7, 200>>,
     <<177, 8, 1>>, <<177, 8, 2>>, <<177, 8, 3>>,
     <<177, 10, 0>>, <<177, 10, 1>>, <<177, 10, 63>>, <<177, 10, 64>>, <<177, 10, 65>>,
     <<177, 10, 127>>, <<177, 10, 200>>,
     <<225, 0, 0>>, <<225, 127, 127>>, <<225, 0, 64>>, <<225, 127, 200>>,
     <<177, 224, 5>>}

\* the state after start_midi_device on a fresh AppState, then save_profile if a
\* profile is given, then start_midi_learn if armed; a is the audio state
InitConfigured(profile, armed, a) ==
    LET started == start_device(MidiManager_new,
                                [port_present |-> TRUE, link_ok |-> FALSE],
                                TRUE, "midi:0", "midi:0")
    IN
    /\ now = 0
    /\ used = [cmds |-> 0, events |-> 0]
    /\ active_profile = profile
    /\ binding_state = EmptyMap
    /\ feedback_values = IF profile = None THEN EmptyMap
                         ELSE sync_feedback_values(EmptyMap, profile[1], a)
    /\ learn_pending = armed
    /\ learn_candidate = None
    /\ learned_control = None
    /\ heard = IF armed THEN Some(<<>>) ELSE None
    /\ polled = NotPolled
    /\ ctx = CtxIdle
    /\ osd_last_update = None
    /\ store = IF profile = None THEN <<>> ELSE store_save(<<>>, profile[1])
    /\ audio = a
    /\ midi = started.midi
    /\ transport = started.transport
    /\ hw = EmptyMap
    /\ pcEv = "idle"
    /\ ev = EvIdle
    /\ tasks = {}
    /\ pcLoop = "candidate"
    /\ lp = LpIdle
    /\ res = NoCall(EmptyMap)
    /\ eff = NoEffect

InitShape == InitConfigured(Some(ShapeProfile), FALSE, AudioInit)

NextShape ==
    \/ \E message \in ShapeMessages : EvArrive(message)
    \/ EvLookup \/ EvResolve
    \/ EvVolSet \/ EvVolCache \/ EvVolOsd \/ EvVolSend \/ EvVolNotify
    \/ Tick(MaxTime)

SpecShape == InitShape /\ [][NextShape]_vars

\* the step in which the callback calls the resolver
Resolving == pcEv = "resolve" /\ pcEv' # pcEv

\* BindingState[K] as the resolver finds it: the entry, or the fresh one it inserts
StateBefore ==
    IF Has(binding_state, EvKey) THEN binding_state[EvKey]
    ELSE [last_value |-> 0, last_update |-> now]

\* the value of the last accepted event on the key, 0.0 before the first
LastAccepted == IF Has(res.accepted, EvKey) THEN res.accepted[EvKey].value ELSE 0

Suppressed ==
    /\ res'.ret = None
    /\ Get(binding_state', EvKey) = Some(StateBefore)
    /\ pcEv' = "idle"

Accepted(v) ==
    /\ res'.ret = Some(v)
    /\ Get(binding_state', EvKey) = Some([last_value |-> v, last_update |-> now])

\* C5: for an Absolute binding with deadzone Z > 0 and no debounce, an event
\* whose shaped value v = raw/127 has |v - last accepted value| < Z is
\* suppressed with BindingState[K] as it was, and one with
\* |v - last accepted value| >= Z is accepted: the resolver returns v and
\* BindingState[K] becomes (v, now).
C5_Deadzone ==
    [][(/\ Resolving
        /\ EvBinding.mode = "Absolute" /\ EvBinding.control.controller # 224
        /\ EvBinding.deadzone > 0 /\ EvBinding.debounce_ms = 0)
       => LET v == EvEvent.value * (One \div 127)
              d == IF v >= LastAccepted THEN v - LastAccepted ELSE LastAccepted - v
          IN  IF d < EvBinding.deadzone THEN Suppressed ELSE Accepted(v)]_vars

\* C5 witness: on the slider (Z = 2/127) raw 1 after an accepted raw 3 differs
\* by exactly Z and was accepted
C5_Witness ==
    /\ res.called /\ res.binding.id = "slider"
    /\ res.had /\ res.before.last_value = 3 * (One \div 127)
    /\ res.event.value = 1
    /\ res.ret = Some(One \div 127)
    /\ res.after = [last_value |-> One \div 127, last_update |-> res.at]
    /\ res.at > res.before.last_update

\* C6: every value the resolver returns and every BindingState.last_value lies
\* in [0.0, 1.0], for every frame the parser decodes.
C6_UnitRange ==
    /\ (res.called /\ res.ret # None) => res.ret[1] \in 0..One
    /\ \A k \in DOMAIN binding_state : binding_state[k].last_value \in 0..One

\* C7: Relative shaping decodes raw 0 and 64 as delta 0, 1..63 as +raw and
\* 65..127 as -(raw - 64); the event is accepted with value
\* clamp(previous + delta * 0.02, 0, 1); a raw byte outside 0..127 drops the
\* event and leaves BindingState[K] as it was.
C7_RelativeDecoding ==
    [][(/\ Resolving
        /\ EvBinding.mode = "Relative"
        /\ EvBinding.deadzone = 0 /\ EvBinding.debounce_ms = 0)
       => LET raw == EvEvent.value
              delta == CASE raw = 0 \/ raw = 64 -> 0
                         [] raw = 1            -> 1
                         [] raw = 65           -> -1
                         [] raw = 127          -> -63
                         [] raw \in 2..63      -> raw
                         [] raw \in 66..126    -> 64 - raw
                         [] OTHER              -> 0
              sum == StateBefore.last_value + delta * (One \div 50)
              v == IF sum < 0 THEN 0 ELSE IF sum > One THEN One ELSE sum
          IN  IF raw \in 0..127 THEN Accepted(v) ELSE Suppressed]_vars

\* C7 witness: raw 65 on the encoder took one step of 0.02 off a previous 0.04
C7_Witness ==
    /\ res.called /\ res.binding.id = "encoder"
    /\ res.event.value = 65
    /\ res.before.last_value = 2 * (One \div 50)
    /\ res.ret = Some(One \div 50)

\* C8: Absolute shaping yields value_14/16383 on the pitch-bend control (224)
\* and raw/127 on every other control, so value_14 = 16383 gives 1.0 and
\* value_14 = 0 gives 0.0; an event without a 14-bit value on the pitch-bend
\* control yields no value and leaves BindingState[K] as it was.
C8_AbsoluteShaping ==
    [][(/\ Resolving
        /\ EvBinding.mode = "Absolute"
        /\ EvBinding.deadzone = 0 /\ EvBinding.debounce_ms = 0)
       => IF EvBinding.control.controller = 224
          THEN IF EvEvent.value_14 = None THEN Suppressed
               ELSE /\ Accepted(EvEvent.value_14[1] * (One \div 16383))
                    /\ EvEvent.value_14[1] = 16383 => res'.ret = Some(One)
                    /\ EvEvent.value_14[1] = 0 => res'.ret = Some(0)
          ELSE Accepted(EvEvent.value * (One \div 127))]_vars

\* C8 witness: the pitch-bend frame E1 7F 7F (value_14 = 16383) resolved to 1.0
C8_Witness ==
    /\ res.called /\ res.binding.id = "wheel"
    /\ res.event.value_14 = Some(16383)
    /\ res.ret = Some(One)

----------------------------------------------------------------------------
(* Learn mode: the device is started, no profile is active and learn mode   *)
(* has been armed once.                                                     *)

LearnMessages == {<<145, 9, 127>>, <<177, 7, 64>>, <<225, 0, 64>>}

InitLearn == InitConfigured(None, TRUE, AudioInit)

NextLearn ==
    \/ \E message \in LearnMessages : EvArrive(message)
    \/ EvLearnNote \/ EvLearnClear \/ EvLearnPublish
    \/ EvLookup
    \/ LoopCandidate \/ LoopCommit \/ LoopProfile \/ LoopOsdCheck \/ LoopSleep
    \/ Tick(MaxLearnTime)

SpecLearn == InitLearn /\ [][NextLearn]_vars

\* after the arming the first event was a Note and the second, at most 150 ms
\* later, a ControlChange or PitchBend on another controller
NoteThenControl ==
    /\ heard # None /\ Len(heard[1]) >= 2
    /\ heard[1][1].control.msg_type = "Note"
    /\ heard[1][2].control.msg_type # "Note"
    /\ heard[1][2].control.controller # heard[1][1].control.controller
    /\ heard[1][2].at - heard[1][1].at <= 150

\* the callback is past the learn branch of the second event
SecondHandled == Len(heard[1]) > 2 \/ pcEv \notin {"learn_clear", "learn_publish"}

\* C10: after an arming, when a Note is followed within 150 ms by a
\* ControlChange or PitchBend on another controller, learn mode is Idle from
\* the arrival of the second event on, the Note is never the published
\* control, and once the callback has handled the second event the non-Note
\* control is the published one and no candidate is left.
C10_ControlBeatsNote ==
    NoteThenControl
    => /\ ~learn_pending
       /\ learned_control # Some(heard[1][1].control)
       /\ SecondHandled => /\ learned_control = Some(heard[1][2].control)
                           /\ learn_candidate = None

\* C10 witness: the ControlChange arrived 150 ms after the Note and was
\* published, although the loop had taken the Note candidate for its commit
\* step before the callback cleared it
C10_Witness ==
    /\ NoteThenControl
    /\ heard[1][2].at - heard[1][1].at = 150
    /\ pcLoop = "commit" /\ lp.commit = Some(heard[1][1].control)
    /\ pcEv = "idle"
    /\ learned_control = Some(heard[1][2].control)

----------------------------------------------------------------------------
(* Profile editing: bindings are added to and removed from the active       *)
(* profile, profiles are saved and loaded.  Knob and Pad have the same      *)
(* device, channel and controller and differ in the message kind; Toggle    *)
(* has the control of Knob.                                                 *)

Pad == Binding("pad", 1, 7, "Note", Target("Master", ""), "ToggleMute", "Absolute", 0, 0)
Toggle == Binding("toggle", 1, 7, "ControlChange", Target("Master", ""), "ToggleMute",
                  "Absolute", 0, 0)

EditBindings == {Knob, Pad, Toggle, Slider}

EditProfiles == {[name |-> "Default", bindings |-> <<Knob>>],
                 [name |-> "Stage", bindings |-> <<Slider, Pad>>]}

NextProfile ==
    \/ \E binding \in EditBindings : CmdAddBinding(binding)
    \/ \E binding \in EditBindings : CmdRemoveBinding(binding)
    \/ \E task \in tasks : RemoveClear(task)
    \/ \E task \in tasks : RemoveSend(task)
    \/ \E profile \in EditProfiles : CmdSaveProfile(profile)
    \/ \E name \in {"Default", "Stage"} : CmdLoadProfile(name)
    \/ CmdStartMidiDevice("midi:0", "midi:0")
    \/ Tick(MaxTime)

SpecProfile == Init /\ [][NextProfile]_vars

\* C9: the active profile never holds two bindings with the same BindingKey
\* (device_id, channel, controller), whatever add_binding, remove_binding,
\* save_profile and load_profile calls were made and whatever the message
\* kinds of the bindings added are.
C9_OneBindingPerKey ==
    active_profile # None
    => \A i, j \in 1..Len(active_profile[1].bindings) :
          i # j => BindingKey_from_binding(active_profile[1].bindings[i])
                   # BindingKey_from_binding(active_profile[1].bindings[j])

----------------------------------------------------------------------------
(* Settling: the device is started, the audio state is whatever the other   *)
(* programs left and no longer changes, no hardware event arrives; the user *)
(* adds bindings and the reconciliation loop runs for ever.                 *)

AppMute == Binding("app", 1, 11, "Note", Target("Application", "my-app"), "ToggleMute",
                   "Absolute", 0, 0)
Output == Binding("output", 1, 12, "ControlChange", Target("Device", "playback:d1"),
                  "Volume", "Absolute", 0, 0)

SettleBindings == {Knob, Pad, AppMute, Output}

SettleAudios ==
    {[AudioInit EXCEPT !.master = [volume |-> v, is_muted |-> m],
                       !.sessions["s1"].is_muted = sm,
                       !.playback["d1"].volume = dv] :
        v \in {0, 64 * (One \div 127)}, m \in BOOLEAN, sm \in BOOLEAN,
        dv \in {0, One}}

InitSettle == \E a \in SettleAudios : InitConfigured(None, FALSE, a)

NextSettle ==
    \/ \E binding \in SettleBindings : CmdAddBinding(binding)
    \/ LoopPass

SpecSettle == InitSettle /\ [][NextSettle]_vars /\ WF_vars(LoopPass)

\* the true value behind a binding: the mute bit or the volume of the audio
\* object obj
TrueValue(binding, obj) ==
    LET o == IF obj[1] = "master" THEN audio.master ELSE audio[obj[1]][obj[2]]
    IN  IF binding.action = "ToggleMute" THEN Bit(o.is_muted) ELSE o.volume

\* the cache entry and the last frame on the wire of every resolvable binding
\* of the active profile show the true value of its target
Converged ==
    active_profile # None
    => \A i \in 1..Len(active_profile[1].bindings) :
          LET b == active_profile[1].bindings[i]
              key == BindingKey_from_binding(b)
          IN  \A obj \in ResolveTarget(audio, b.target) :
                 /\ Get(feedback_values, key) = Some(TrueValue(b, obj))
                 /\ Get(hw, HwControl(b)) = Some(feedback_message(b.control.channel,
                                         b.control.controller, TrueValue(b, obj),
                                         b.control.msg_type))

\* C3: once the profile and the audio state have stopped changing, with the
\* device active and no hardware events, the Feedback Cache entry of every
\* binding whose target resolves eventually equals the target's true mute or
\* volume value and the frame encoding it is the one sent from then on.
C3_Convergence == <>[]Converged

----------------------------------------------------------------------------
(* Committing a note: the device is started, learn mode has been armed     *)
(* once, and the loop and the clock keep running.  The clock runs past     *)
(* MaxLearnTime as long as a candidate has not yet outlived the grace      *)
(* period: all the loop asks of it is whether the candidate is older.      *)

TickGrace ==
    /\ learn_candidate # None
    /\ now - learn_candidate[1].time <= LEARN_GRACE_MS
    /\ now' = now + ClockStep
    /\ UNCHANGED <<used, appVars, learnVars, ioVars, evVars, loopVars, ctx>>

LoopLearn == LoopCandidate \/ LoopCommit \/ LoopProfile \/ LoopOsdCheck \/ LoopSleep

NextCommit ==
    \/ \E message \in LearnMessages : EvArrive(message)
    \/ EvLearnNote \/ EvLearnClear \/ EvLearnPublish
    \/ EvLookup
    \/ LoopLearn
    \/ Tick(MaxLearnTime)
    \/ TickGrace

SpecCommit ==
    /\ InitLearn
    /\ [][NextCommit]_vars
    /\ WF_vars(LoopLearn)
    /\ WF_vars(EvLearnNote)
    /\ WF_vars(Tick(MaxLearnTime) \/ TickGrace)

\* the one event since the arming is a Note and the callback is through with it
OneNote ==
    /\ Len(heard[1]) = 1
    /\ heard[1][1].control.msg_type = "Note"
    /\ pcEv = "idle"

\* the loop has published that Note
NoteCommitted ==
    /\ OneNote
    /\ learned_control = Some(heard[1][1].control)
    /\ learn_candidate = None
    /\ ~learn_pending

\* C11: after the arming, a Note is published only by the loop, from a
\* candidate it took when the candidate was more than 150 ms old; and when a
\* Note arrives and no other event follows, the loop eventually publishes it,
\* with the candidate removed and learn mode Idle.
C11_NoteCommitted ==
    /\ [][pcLoop = "candidate" /\ pcLoop' = "commit"
          => /\ learn_candidate # None
             /\ now - learn_candidate[1].time > 150
             /\ lp'.commit = Some(learn_candidate[1].control)]_vars
    /\ [][/\ learned_control' # learned_control
          /\ learned_control' # None
          /\ learned_control'[1].msg_type = "Note"
          => pcLoop = "commit" /\ lp.commit = learned_control']_vars
    /\ ([](Len(heard[1]) <= 1) => [](OneNote => <>NoteCommitted))

\* C11 witness: the Note that arrived at time 50 is the published control at
\* time 250, one clock step after its candidate had turned 150 ms old
C11_Witness ==
    /\ NoteCommitted
    /\ heard[1][1].at = ClockStep
    /\ now = ClockStep + LEARN_GRACE_MS + ClockStep

----------------------------------------------------------------------------
(* Learning next to bindings: the device is started, the profile with the  *)
(* fader and the mute button is active and learn mode has been armed; the  *)
(* frames that arrive are a move of the fader and a press of the button.   *)

InitArmed == \E profile \in DispatchProfiles : InitConfigured(Some(profile), TRUE, AudioInit)

ArmedMessages == {<<177, 7, 64>>, <<145, 9, 127>>}

NextArmed ==
    \/ \E message \in ArmedMessages : EvArrive(message)
    \/ EvLearnNote \/ EvLearnClear \/ EvLearnPublish
    \/ EvDispatch
    \/ LoopPass \/ LoopCommit
    \/ Tick(MaxLearnTime)

SpecArmed == InitArmed /\ [][NextArmed]_vars

LearnBranch == {"learn_note", "learn_clear", "learn_publish"}

\* a step of the callback on an event that arrived while learn mode was armed
ArmedEventStep ==
    /\ pcEv' # pcEv
    /\ \/ pcEv = "idle" /\ learn_pending
       \/ pcEv \in LearnBranch

\* C12: an event that arrives while learn mode is Armed never reaches binding
\* dispatch: every step of the callback on it stays in the learn branch or
\* returns, leaves BindingState, the audio state, the Feedback Cache, the MIDI
\* output and the hardware alone, calls no resolver and emits no notification,
\* even when a binding matches the event's key.
C12_ArmedSkipsDispatch ==
    [][ArmedEventStep
       => /\ pcEv' \in LearnBranch \cup {"idle"}
          /\ pcEv = "idle" => pcEv' \in LearnBranch
          /\ UNCHANGED <<binding_state, feedback_values, osd_last_update, audio, midi,
                         transport, hw, tasks>>
          /\ eff' = NoEffect
          /\ ~res'.called]_vars

\* C12 witness: the fader's ControlChange arrived while armed and is about to
\* be published as learned; the fader binding matches its key
C12_Witness ==
    /\ pcEv = "learn_publish"
    /\ find_binding(active_profile[1], EvKey) = Some(Fader)
    /\ binding_state = EmptyMap
    /\ audio = AudioInit

----------------------------------------------------------------------------
(* Arming again: the device is started and learn mode has been armed; the  *)
(* UI arms again and polls for the learned control while events arrive and *)
(* the loop runs.                                                          *)

NextRearm ==
    \/ \E message \in LearnMessages : EvArrive(message)
    \/ EvLearnNote \/ EvLearnClear \/ EvLearnPublish
    \/ EvLookup
    \/ LoopLearn
    \/ CmdStartMidiLearn
    \/ \E task \in tasks : LearnReset(task)
    \/ CmdConsumeLearnedControl
    \/ Tick(MaxLearnTime)

SpecRearm == InitLearn /\ [][NextRearm]_vars

\* the step publishes a control as learned
Publishing == learned_control' # None /\ learned_control' # learned_control

\* C13: a control published as learned stems from an event received after the
\* latest arming: it is the control of one of the events heard since
\* start_midi_learn last set learn mode to Armed.
C13_FreshCapture ==
    [][Publishing
       => \E i \in 1..Len(heard'[1]) : heard'[1][i].control = learned_control'[1]]_vars

\* a step of consume_learned_control
Consuming == polled'.calls # polled.calls

\* a step in which start_midi_learn forgets the learned control
Resetting == \E task \in tasks : task.kind = "learn_reset" /\ task \notin tasks'

----------------------------------------------------------------------------
(* Targets: the device is started and a profile is active that binds one   *)
(* control to every kind of target, for muting and for the volume; some of *)
(* the targets name a session or a device that does not exist, and the     *)
(* foreground application is my-app or none.                               *)

MuteOn(id, controller, target) ==
    Binding(id, 1, controller, "Note", target, "ToggleMute", "Absolute", 0, 0)

VolumeOn(id, controller, target) ==
    Binding(id, 1, controller, "ControlChange", target, "Volume", "Absolute", 0, 0)

MuteProfile ==
    [name |-> "Mutes",
     bindings |-> <<MuteOn("mute-master", 20, Target("Master", "")),
                    MuteOn("mute-focus", 21, Target("Focus", "")),
                    MuteOn("mute-session", 22, Target("Session", "s1")),
                    MuteOn("mute-app", 23, Target("Application", "My-App")),
                    MuteOn("mute-device", 24, Target("Device", "recording:d1")),
                    MuteOn("mute-plugin", 25, Target("Integration", "obs")),
                    MuteOn("mute-unset", 26, Target("Unset", "")),
                    MuteOn("mute-gone", 27, Target("Application", "gone")),
                    Binding("mute-plugin-cc", 1, 28, "ControlChange",
                            Target("Integration", "obs"), "ToggleMute", "Absolute", 0, 0)>>]

VolumeProfile ==
    [name |-> "Volumes",
     bindings |-> <<VolumeOn("vol-plugin", 30, Target("Integration", "obs")),
                    VolumeOn("vol-unset", 31, Target("Unset", "")),
                    VolumeOn("vol-focus", 32, Target("Focus", "")),
                    VolumeOn("vol-session", 33, Target("Session", "s9")),
                    VolumeOn("vol-device", 34, Target("Device", "playback:d9")),
                    VolumeOn("vol-app", 35, Target("Application", "My-App"))>>]

TargetProfiles == {MuteProfile, VolumeProfile}

\* a press of every button, the release of one, a move of every fader, and a
\* move of a control that nothing is bound to
TargetMessages ==
    {<<145, c, 127>> : c \in 20..27} \cup {<<129, 25, 0>>}
    \cup {<<177, 28, 127>>, <<177, 28, 0>>}
    \cup {<<177, c, 64>> : c \in 30..35} \cup {<<177, 99, 64>>}

TargetAudios == {AudioInit, [AudioInit EXCEPT !.focus = Some("s1")]}

InitTargets ==
    \E profile \in TargetProfiles, a \in TargetAudios :
        InitConfigured(Some(profile), FALSE, a)

NextTargets ==
    \/ \E message \in TargetMessages : EvArrive(message)
    \/ EvDispatch
    \/ \E task \in tasks : Reassert(task)
    \/ Tick(ClockStep)

SpecTargets == InitTargets /\ [][NextTargets]_vars

\* the mute and volume state of an audio object
ObjectState(a, obj) == IF obj[1] = "master" THEN a.master ELSE a[obj[1]][obj[2]]

AudioTargets == {"Master", "Focus", "Session", "Application", "Device"}

\* the running event's binding has an audio target, and the target resolves
TargetResolves ==
    /\ EvBinding.target.kind \in AudioTargets
    /\ ResolveTarget(audio, EvBinding.target) # {}

\* C15: an accepted non-release event on a ToggleMute binding whose target
\* (Master, Focus, Session, Application or Device) resolves refreshes the
\* key's last-interaction timestamp, reads the target's mute state and inverts
\* it through the audio backend, and writes the new state into
\* Feedback Cache[key] as 1.0 (muted) or 0.0 (unmuted).
C15_ToggleInverts ==
    /\ [][pcEv = "mark" /\ pcEv' # pcEv /\ EvEvent.value # 0
          => binding_state'[EvKey].last_update = now]_vars
    /\ [][pcEv = "mute_read" /\ pcEv' # pcEv /\ TargetResolves
          => /\ pcEv' = "mute_set"
             /\ \A obj \in ResolveTarget(audio, EvBinding.target) :
                   ev'.muted = ~ObjectState(audio, obj).is_muted]_vars
    /\ [][pcEv = "mute_set" /\ pcEv' # pcEv /\ TargetResolves
          => /\ pcEv' = "mute_osd"
             /\ \A obj \in ResolveTarget(audio, EvBinding.target) :
                   ObjectState(audio', obj).is_muted = ev.muted]_vars
    /\ [][pcEv = "mute_cache" /\ pcEv' # pcEv
          => Get(feedback_values', EvKey) = Some(Bit(ev.muted))]_vars

\* the step in which the callback returns
Returning == pcEv # "idle" /\ pcEv' = "idle"

\* the resolver accepted the running event
EvAccepted == res.called /\ res.ret # None

\* the bindings of the active profile whose target is of one of the kinds
BindingsOn(kinds) ==
    {active_profile[1].bindings[i] : i \in
        {j \in 1..Len(active_profile[1].bindings) :
            active_profile[1].bindings[j].target.kind \in kinds}}

\* C16: when the callback returns from an accepted event on a binding whose
\* target is Integration, whatever the action, it has called no audio
\* function, written no cache entry and sent no frame, and has emitted one
\* integration_binding_triggered notification, in the step in which it
\* returns; from an event on an Unset binding it returns with none of the
\* four; and no control bound to an Integration or Unset target is ever sent
\* a feedback frame on account of an event.
C16_IntegrationOnlyNotifies ==
    /\ [][Returning /\ EvAccepted /\ EvBinding.target.kind = "Integration"
          => /\ eff'.audio = None /\ eff'.cache = None /\ eff'.sent = None
             /\ eff.note = None
             /\ eff'.note # None
             /\ eff'.note[1].name = "integration_binding_triggered"
             /\ eff'.note[1].binding_id = EvBinding.id]_vars
    /\ [][Returning /\ res.called /\ EvBinding.target.kind = "Unset"
          => eff' = NoEffect]_vars
    /\ [](\A b \in BindingsOn({"Integration", "Unset"}) : ~Has(hw, HwControl(b)))

\* the running event's binding has an audio target that resolves to nothing:
\* no such session or device, or no focused application
TargetMisses ==
    /\ EvBinding.target.kind \in AudioTargets
    /\ ResolveTarget(audio, EvBinding.target) = {}

\* C17: an event that no binding matches, and an event whose binding's target
\* resolves to nothing, return with no state change: no audio call, no cache
\* write, no frame, no notification and no task are recorded for the event,
\* and BindingState[key] is what it was before the event.
C17_MissChangesNothing ==
    /\ [][pcEv = "lookup" /\ pcEv' = "idle"
          => /\ eff' = NoEffect
             /\ UNCHANGED <<binding_state, feedback_values, audio, hw, tasks>>]_vars
    /\ [][Returning /\ res.called /\ TargetMisses
          => /\ eff' = NoEffect
             /\ tasks' = tasks
             /\ Get(binding_state', EvKey) = IF res.had THEN Some(res.before) ELSE None]_vars

----------------------------------------------------------------------------
(* Feedback on a failing output port (midi.rs, MidiManager::send_feedback   *)
(* and connect_output).  The application calls send_feedback from the      *)
(* event callback, the re-assertion tasks and the reconciliation loop; here *)
(* the calls come at any time and for any device, the port's cable can be  *)
(* pulled and put back, and the device is started and stopped by command.  *)

FeedbackDevices == {"midi:0", "midi:1"}

NoFeedbackCall == [device_id |-> None, at |-> 0, before |-> MidiManager_new,
                   calls |-> <<>>, sent |-> None, ret |-> "Ok"]

\* one call of send_feedback, for control change 7 on channel 1 at full value;
\* the function has no error return
SendFeedback(device_id) ==
    /\ LET r == send_feedback(midi, transport, now, device_id, 1, 7, One, "ControlChange")
       IN  /\ midi' = r.midi
           /\ transport' = r.transport
           /\ hw' = Deliver(hw, <<device_id, "ControlChange", 1, 7>>, r.sent)
           /\ used' = [used EXCEPT !.feedback =
                          [device_id |-> Some(device_id), at |-> now, before |-> midi,
                           calls |-> r.calls, sent |-> r.sent, ret |-> "Ok"]]
    /\ UNCHANGED <<now, appVars, learnVars, audio, evVars, loopVars, ctx>>

\* the open connection stops writing (conn.send fails) while the port can
\* still be opened
LinkBreaks ==
    /\ transport.link_ok
    /\ transport' = [transport EXCEPT !.link_ok = FALSE]
    /\ UNCHANGED <<now, used, appVars, learnVars, audio, midi, hw, evVars, loopVars, ctx>>

\* the device is unplugged: writes fail and the port cannot be opened
PortUnplugged ==
    /\ transport.port_present
    /\ transport' = [transport EXCEPT !.port_present = FALSE, !.link_ok = FALSE]
    /\ UNCHANGED <<now, used, appVars, learnVars, audio, midi, hw, evVars, loopVars, ctx>>

\* the device is plugged in again: the port can be opened, the old connection
\* stays dead
PortPlugged ==
    /\ ~transport.port_present
    /\ transport' = [transport EXCEPT !.port_present = TRUE]
    /\ UNCHANGED <<now, used, appVars, learnVars, audio, midi, hw, evVars, loopVars, ctx>>

FeedbackTick ==
    /\ now + FeedbackStep <= MaxFeedbackTime
    /\ now' = now + FeedbackStep
    /\ UNCHANGED <<used, appVars, learnVars, ioVars, evVars, loopVars, ctx>>

InitFeedback ==
    /\ now = 0
    /\ used = [cmds |-> 0, events |-> 0, feedback |-> NoFeedbackCall]
    /\ active_profile = None
    /\ binding_state = EmptyMap
    /\ feedback_values = EmptyMap
    /\ learn_pending = FALSE
    /\ learn_candidate = None
    /\ learned_control = None
    /\ heard = None
    /\ polled = NotPolled
    /\ ctx = CtxIdle
    /\ osd_last_update = None
    /\ store = <<>>
    /\ audio = AudioInit
    /\ midi = MidiManager_new
    /\ transport = [port_present |-> TRUE, link_ok |-> FALSE]
    /\ hw = EmptyMap
    /\ pcEv = "idle"
    /\ ev = EvIdle
    /\ tasks = {}
    /\ pcLoop = "candidate"
    /\ lp = LpIdle
    /\ res = NoCall(EmptyMap)
    /\ eff = NoEffect

NextFeedback ==
    \/ \E device_id \in FeedbackDevices : SendFeedback(device_id)
    \/ CmdStartMidiDevice("midi:0", "midi:0")
    \/ CmdStopMidiDevice
    \/ LinkBreaks
    \/ PortUnplugged
    \/ PortPlugged
    \/ FeedbackTick

SpecFeedback == InitFeedback /\ [][NextFeedback]_vars

\* a step that is a call of send_feedback
Sends == \E device_id \in FeedbackDevices : SendFeedback(device_id)

\* the step attempts a reconnect
Reconnects == midi'.last_reconnect_attempt # midi.last_reconnect_attempt

\* the time since the last reconnect attempt, when there was one
SinceAttempt == now - midi.last_reconnect_attempt[1]

\* C18: the consecutive-failure counter never exceeds 3; it grows only by a
\* reconnect attempt that fails, made at least 5 s after the previous attempt;
\* once it is 3, every call of send_feedback makes no call on the port, attempts
\* no reconnect and changes nothing; and it leaves 3 only when a connection is
\* opened, which start_midi_device does.
C18_BudgetExhausted ==
    /\ [](midi.reconnect_failures <= 3)
    /\ [][midi'.reconnect_failures > midi.reconnect_failures
          => /\ Sends /\ Reconnects
             /\ midi'.reconnect_failures = midi.reconnect_failures + 1
             /\ used'.feedback.sent = None
             /\ midi.last_reconnect_attempt # None => SinceAttempt >= 5000]_vars
    /\ [][Sends /\ midi.reconnect_failures = 3
          => /\ used'.feedback.calls = <<>>
             /\ used'.feedback.sent = None
             /\ UNCHANGED <<midi, transport, hw>>]_vars
    /\ [][midi.reconnect_failures = 3 /\ midi'.reconnect_failures # 3
          => /\ ~Sends
             /\ midi'.reconnect_failures = 0
             /\ midi'.output_connections = 1 /\ transport'.link_ok]_vars

\* three reconnects have failed, the cooldown has passed again, and a call for the
\* active device has been made and suppressed
C18_Witness ==
    /\ midi.reconnect_failures = 3
    /\ used.feedback.device_id = midi.active_device
    /\ used.feedback.device_id # None
    /\ used.feedback.before = midi
    /\ used.feedback.at - midi.last_reconnect_attempt[1] >= 5000
    /\ used.feedback.calls = <<>>

\* C19: a reconnect is attempted only by a send_feedback call made at least 5 s
\* after the previous attempt, and a call made less than 5 s after it attempts no
\* reconnect and leaves the manager (failure counter, connection) and the port
\* as they are.
C19_Cooldown ==
    /\ [][Reconnects
          => /\ Sends
             /\ midi.last_reconnect_attempt # None => SinceAttempt >= 5000]_vars
    /\ [][Sends /\ midi.last_reconnect_attempt # None /\ SinceAttempt < 5000
          => /\ \A i \in 1..Len(used'.feedback.calls) : used'.feedback.calls[i] # "connect"
             /\ UNCHANGED <<midi, transport>>]_vars

\* a write on the open connection has failed 2.5 s after a reconnect, with the
\* port present, and no reconnect was attempted
C19_Witness ==
    /\ used.feedback.device_id = midi.active_device
    /\ used.feedback.calls = <<"send">>
    /\ used.feedback.sent = None
    /\ midi.last_reconnect_attempt # None
    /\ used.feedback.at - midi.last_reconnect_attempt[1] = FeedbackStep
    /\ transport.port_present
    /\ used.feedback.before = midi

\* C20: a call of send_feedback for a device that is not the active input device
\* makes no call on the port, sends nothing, changes neither the manager, the
\* port nor the control, and returns Ok; stop_midi_device leaves no device
\* active, so this holds for every call until the next start.
C20_InactiveDeviceNoOp ==
    /\ [][\A device_id \in FeedbackDevices :
             SendFeedback(device_id) /\ midi.active_device # Some(device_id)
             => /\ used'.feedback.calls = <<>>
                /\ used'.feedback.sent = None
                /\ used'.feedback.ret = "Ok"
                /\ UNCHANGED <<midi, transport, hw>>]_vars
    /\ [][CmdStopMidiDevice => midi'.active_device = None]_vars

\* feedback reached the control, the device was stopped, and a later call for
\* the same device did nothing
C20_Witness ==
    /\ Has(hw, <<"midi:0", "ControlChange", 1, 7>>)
    /\ midi.active_device = None
    /\ used.feedback.device_id = Some("midi:0")
    /\ used.feedback.before = midi
    /\ used.feedback.calls = <<>>
    /\ transport.port_present

\* C21 as stated: in a state with no open output connection a call of
\* send_feedback neither writes a frame nor attempts to open a connection.
C21_NoConnectionNoOp ==
    [][Sends /\ midi.output_connections = 0
       => used'.feedback.calls = <<>> /\ used'.feedback.sent = None]_vars

\* C21: while no output device is selected (before the first start and after a
\* stop) a call of send_feedback makes no call on the port and changes nothing,
\* and no connection is open then; while a device is selected and its
\* connection is closed, a call writes nothing on a connection before it has
\* reopened one, which it attempts under the reconnect policy only.
C21_NoOutputSelectedNoOp ==
    /\ [](midi.active_output_device = None => midi.output_connections = 0)
    /\ [][CmdStopMidiDevice => midi'.active_output_device = None]_vars
    /\ [][Sends /\ midi.active_output_device = None
          => /\ used'.feedback.calls = <<>>
             /\ used'.feedback.sent = None
             /\ UNCHANGED <<midi, transport, hw>>]_vars
    /\ [][Sends /\ midi.output_connections = 0
          => /\ used'.feedback.calls \in {<<>>, <<"connect">>, <<"connect", "send">>}
             /\ used'.feedback.calls # <<>>
                => /\ midi.reconnect_failures < 3
                   /\ midi.last_reconnect_attempt # None => SinceAttempt >= 5000]_vars

\* the device was started and stopped, the port is there, and a call made after
\* the stop did nothing
C21_Witness ==
    /\ used.cmds = 2
    /\ midi.active_output_device = None
    /\ midi.output_connections = 0
    /\ transport.port_present
    /\ used.feedback.device_id # None
    /\ used.feedback.before = midi
    /\ used.feedback.calls = <<>>
    /\ used.feedback.at = FeedbackStep

----------------------------------------------------------------------------
(* The feedback commands of the UI (commands/bindings.rs) and the frames   *)
(* they put on the wire.                                                    *)

\* (current - value).abs() < 0.005
NearlyEqual(current, value) == Abs(current - value) * 200 < One

\* the key was touched by an event less than 500 ms ago; Note controls are
\* never held back (lines 104-115 and 177-185)
user_active(states, binding, t) ==
    LET key == BindingKey_from_binding(binding)
    IN  /\ binding.control.msg_type # "Note"
        /\ Has(states, key)
        /\ t - states[key].last_update < USER_ACTIVE_MS

\* commands/bindings.rs, set_binding_feedback, lines 151-226; the notification
\* to the UI and the OSD window (lines 228-295) changes no state of the core
CmdSetBindingFeedback(binding_id, value, silent) ==
    /\ used.cmds < MaxCmds
    /\ used' = [used EXCEPT !.cmds = @ + 1]
    /\ LET found == IF active_profile = None THEN None
                    ELSE FindFirst(active_profile[1].bindings, LAMBDA b : b.id = binding_id)
       IN  IF found = None
           THEN UNCHANGED <<feedback_values, osd_last_update, midi, transport, hw>>
           ELSE LET binding == found[1]
                    key     == BindingKey_from_binding(binding)
                    active  == user_active(binding_state, binding, now)
                    skip    == /\ Has(feedback_values, key)
                               /\ NearlyEqual(feedback_values[key], value)
                IN  IF (active /\ silent) \/ skip
                    THEN UNCHANGED <<feedback_values, osd_last_update, midi, transport, hw>>
                    ELSE /\ feedback_values' = Put(feedback_values, key, value)
                         /\ osd_last_update' = Some(now)
                         /\ IF active THEN UNCHANGED <<midi, transport, hw>>
                            ELSE LET r == send_feedback(midi, transport, now, binding.device_id,
                                                        binding.control.channel,
                                                        binding.control.controller, value,
                                                        binding.control.msg_type)
                                 IN  /\ midi' = r.midi
                                     /\ transport' = r.transport
                                     /\ hw' = Deliver(hw, HwControl(binding), r.sent)
    /\ UNCHANGED <<now, active_profile, binding_state, store, learnVars, audio, evVars, loopVars, ctx>>

\* lines 87-145 from binding i on: [feedback, midi, transport, hw] afterwards
RECURSIVE update_all(_, _, _, _, _, _, _, _, _, _, _, _)
update_all(fb, m, tr, h, states, t, bindings, i, target, value, binding_id, action) ==
    IF i > Len(bindings) THEN [feedback |-> fb, midi |-> m, transport |-> tr, hw |-> h]
    ELSE LET binding == bindings[i]
             key     == BindingKey_from_binding(binding)
             matches == IF binding_id # None THEN binding.id = binding_id[1]
                        ELSE IF action # None /\ binding.action # action[1] THEN FALSE
                        ELSE binding.target = target
             skip    == Has(fb, key) /\ NearlyEqual(fb[key], value)
         IN  IF ~matches \/ user_active(states, binding, t) \/ skip
             THEN update_all(fb, m, tr, h, states, t, bindings, i + 1, target, value,
                             binding_id, action)
             ELSE LET r == send_feedback(m, tr, t, binding.device_id, binding.control.channel,
                                         binding.control.controller, value,
                                         binding.control.msg_type)
                  IN  update_all(Put(fb, key, value), r.midi, r.transport,
                                 Deliver(h, HwControl(binding), r.sent), states, t, bindings,
                                 i + 1, target, value, binding_id, action)

\* commands/bindings.rs, update_midi_feedback
CmdUpdateMidiFeedback(target, value, binding_id, action) ==
    /\ used.cmds < MaxCmds
    /\ used' = [used EXCEPT !.cmds = @ + 1]
    /\ IF active_profile = None
       THEN UNCHANGED <<feedback_values, midi, transport, hw>>
       ELSE LET r == update_all(feedback_values, midi, transport, hw, binding_state, now,
                                active_profile[1].bindings, 1, target, value, binding_id,
                                action)
            IN  /\ feedback_values' = r.feedback
                /\ midi' = r.midi
                /\ transport' = r.transport
                /\ hw' = r.hw
    /\ UNCHANGED <<now, active_profile, binding_state, osd_last_update, store, learnVars,
                   audio, evVars, loopVars, ctx>>

\* one control of each message kind, on channels given with and without high
\* bits (a profile stores the channel as a byte), none bound to an audio target
EncodeProfile ==
    [name |-> "Encode",
     bindings |-> <<Binding("pad-0", 0, 60, "Note", Target("Unset", ""), "ToggleMute",
                            "Absolute", 0, 0),
                    Binding("pad-31", 31, 127, "Note", Target("Unset", ""), "ToggleMute",
                            "Absolute", 0, 0),
                    Binding("knob-1", 1, 7, "ControlChange", Target("Unset", ""), "Volume",
                            "Absolute", 0, 0),
                    Binding("knob-255", 255, 0, "ControlChange", Target("Unset", ""), "Volume",
                            "Absolute", 0, 0),
                    Binding("wheel-15", 15, 224, "PitchBend", Target("Unset", ""), "Volume",
                            "Absolute", 0, 0),
                    Binding("wheel-16", 16, 224, "PitchBend", Target("Unset", ""), "Volume",
                            "Absolute", 0, 0)>>]

\* values below, in and above [0, 1], at and next to the rounding boundaries of
\* the 7-bit scale (0.5/127) and the 14-bit scale (0.5/16383)
EncodeValues ==
    {0 - One, 0, 24, 25, (One \div 127) \div 2 - 1, (One \div 127) \div 2, One \div 2,
     One - 25, One - 26, One, 2 * One}

InitEncode == InitConfigured(Some(EncodeProfile), FALSE, AudioInit)

NextEncode ==
    \/ \E i \in 1..Len(EncodeProfile.bindings), value \in EncodeValues, silent \in BOOLEAN :
          CmdSetBindingFeedback(EncodeProfile.bindings[i].id, value, silent)
    \/ \E i \in 1..Len(EncodeProfile.bindings), value \in EncodeValues :
          CmdUpdateMidiFeedback(Target("Unset", ""), value,
                                Some(EncodeProfile.bindings[i].id), None)

SpecEncode == InitEncode /\ [][NextEncode]_vars

\* the data byte d is value * scale rounded to the nearest integer, halves up
RoundsTo(d, value, scale) ==
    LET unit == One \div scale
        c    == IF value < 0 THEN 0 ELSE IF value > One THEN One ELSE value
    IN  2 * d * unit - unit <= 2 * c /\ 2 * c < 2 * d * unit + unit

\* the frame is the encoding of the value for the binding's control
Encodes(frame, binding, value) ==
    LET kind == binding.control.msg_type
        base == CASE kind = "Note" -> 144 [] kind = "ControlChange" -> 176 [] OTHER -> 224
    IN  /\ Len(frame) = 3
        /\ frame[1] = base + (binding.control.channel % 16)
        /\ frame[2] \in 0..127 /\ frame[3] \in 0..127
        /\ IF kind = "PitchBend"
           THEN RoundsTo(128 * frame[3] + frame[2], value, 16383)
           ELSE frame[2] = binding.control.controller /\ RoundsTo(frame[3], value, 127)

\* C22: the frame a control has received is the 3-byte encoding of the value
\* then sent, clamped to [0, 1]: status 0x90, 0xB0 or 0xE0 plus the low four
\* bits of the channel; velocity or data round(value * 127) for Note and
\* ControlChange; for PitchBend round(value * 16383) as LSB then MSB; no value
\* byte above 127.  (The commands cache the value they send.)
C22_FrameEncoding ==
    \A i \in 1..Len(EncodeProfile.bindings) :
       LET binding == EncodeProfile.bindings[i]
       IN  Has(hw, HwControl(binding))
           => Encodes(hw[HwControl(binding)], binding,
                      feedback_values[BindingKey_from_binding(binding)])

\* a pitch bend of 0.5 went out as E0 00 40 on channel 16 (status nibble 0), a
\* Note above 1.0 as velocity 127
C22_Witness ==
    /\ Has(hw, <<"midi:0", "PitchBend", 16, 224>>)
    /\ hw[<<"midi:0", "PitchBend", 16, 224>>] = <<224, 0, 64>>
    /\ Has(hw, <<"midi:0", "Note", 31, 127>>)
    /\ hw[<<"midi:0", "Note", 31, 127>>] = <<159, 127, 127>>
    /\ feedback_values[<<"midi:0", 31, 127>>] = 2 * One

----------------------------------------------------------------------------
(* remove_binding's phases (commands/bindings.rs, lines 26-71)              *)

\* the tasks of a kind that the step starts, and those it ends
Started(kind) == {task \in tasks' \ tasks : task.kind = kind}
Ended(kind) == {task \in tasks \ tasks' : task.kind = kind}

\* C23: remove_binding first removes the binding from the active profile and
\* persists the profile, leaving the key's transient state alone; the key's
\* Feedback Cache entry and BindingState are cleared no earlier than 100 ms
\* after that; and the zero frame is sent no earlier than 100 ms after it.
C23_TwoPhase ==
    /\ [][\A task \in Started("remove_clear") :
             /\ active_profile # None
                => /\ \A i \in 1..Len(active_profile'[1].bindings) :
                         active_profile'[1].bindings[i].id # task.binding.id
                   /\ store_load(store', active_profile'[1].name) = active_profile'
             /\ UNCHANGED <<feedback_values, binding_state, hw>>]_vars
    /\ [][\A task \in Ended("remove_clear") :
             now - task.due >= 100]_vars
    /\ [][\A task \in Ended("remove_send") :
             /\ now - task.due >= 0
             /\ ~Has(feedback_values, task.key) /\ ~Has(binding_state, task.key)]_vars

----------------------------------------------------------------------------
(* Saving to profiles.json (profile_store.rs).  save_profile reads the      *)
(* whole file, replaces or appends one record and writes the whole file;   *)
(* the file has no lock, so a save is two steps here, and the command       *)
(* save_profile (which holds no lock while it saves) runs beside           *)
(* remove_binding (an async command, which saves under the active_profile   *)
(* lock).                                                                   *)

\* remove_binding is between lines 29 and 45 and holds the active_profile lock
ProfileLocked == \E task \in tasks : task.kind = "remove_save"

\* a save_profile command is running; the commands that are not async run one
\* after the other on the main thread
MainThreadBusy == \E task \in tasks : task.kind \in {"save_write", "save_activate"}

\* commands/profiles.rs, line 45, and profile_store.rs, line 32: load_all
SaveProfileLoad(profile) ==
    /\ used.cmds < MaxCmds
    /\ ~MainThreadBusy
    /\ used' = [used EXCEPT !.cmds = @ + 1]
    /\ IF load_all(store) = None THEN UNCHANGED tasks
       ELSE tasks' = tasks \cup {[kind |-> "save_write", profile |-> profile, read |-> store]}
    /\ UNCHANGED <<now, appVars, learnVars, ioVars, pcEv, ev, res, eff, loopVars, ctx>>

\* profile_store.rs, lines 33-41: replace or append in what was read, write_all
SaveProfileWrite(task) ==
    /\ task \in tasks
    /\ task.kind = "save_write"
    /\ store' = store_save(task.read, task.profile)
    /\ tasks' = (tasks \ {task}) \cup {[kind |-> "save_activate", profile |-> task.profile]}
    /\ UNCHANGED <<now, used, active_profile, binding_state, feedback_values, osd_last_update,
                   learnVars, ioVars, pcEv, ev, res, eff, loopVars, ctx>>

\* commands/profiles.rs, lines 47-55
SaveProfileActivate(task) ==
    /\ task \in tasks
    /\ task.kind = "save_activate"
    /\ ~ProfileLocked
    /\ active_profile' = Some(task.profile)
    /\ feedback_values' = sync_feedback_values(feedback_values, task.profile, audio)
    /\ tasks' = tasks \ {task}
    /\ UNCHANGED <<now, used, binding_state, osd_last_update, store, learnVars, ioVars,
                   pcEv, ev, res, eff, loopVars, ctx>>

\* commands/bindings.rs, lines 29-42, and profile_store.rs, line 32: under the
\* active_profile lock, drop the binding and start the save
RemoveBindingLoad(binding) ==
    /\ used.cmds < MaxCmds
    /\ used' = [used EXCEPT !.cmds = @ + 1]
    /\ ~ProfileLocked
    /\ IF active_profile = None
       THEN /\ UNCHANGED active_profile
            /\ tasks' = tasks \cup {[kind |-> "remove_clear", binding |-> binding,
                                      key |-> BindingKey_from_binding(binding), due |-> now]}
       ELSE LET updated == [active_profile[1] EXCEPT !.bindings =
                               SelectSeq(@, LAMBDA existing : existing.id # binding.id)]
            IN  /\ active_profile' = Some(updated)
                /\ IF load_all(store) = None THEN UNCHANGED tasks
                   ELSE tasks' = tasks \cup {[kind |-> "remove_save", binding |-> binding,
                                               profile |-> updated, read |-> store,
                                               due |-> now]}
    /\ UNCHANGED <<now, binding_state, feedback_values, osd_last_update, store, learnVars,
                   ioVars, pcEv, ev, res, eff, loopVars, ctx>>

\* profile_store.rs, lines 33-41, then commands/bindings.rs, line 45: the lock
\* is released
RemoveBindingWrite(task) ==
    /\ task \in tasks
    /\ task.kind = "remove_save"
    /\ store' = store_save(task.read, task.profile)
    /\ tasks' = (tasks \ {task})
                 \cup {[kind |-> "remove_clear", binding |-> task.binding,
                        key |-> BindingKey_from_binding(task.binding), due |-> task.due]}
    /\ UNCHANGED <<now, used, active_profile, binding_state, feedback_values, osd_last_update,
                   learnVars, ioVars, pcEv, ev, res, eff, loopVars, ctx>>

InitStore == \E profile \in EditProfiles : InitConfigured(Some(profile), FALSE, AudioInit)

NextStore ==
    \/ \E profile \in EditProfiles : SaveProfileLoad(profile)
    \/ \E task \in tasks : SaveProfileWrite(task)
    \/ \E task \in tasks : SaveProfileActivate(task)
    \/ \E binding \in EditBindings : RemoveBindingLoad(binding)
    \/ \E task \in tasks : RemoveBindingWrite(task)
    \/ \E task \in tasks : RemoveClear(task)
    \/ \E task \in tasks : RemoveSend(task)
    \/ \E name \in {"Default", "Stage"} :
          ~ProfileLocked /\ ~MainThreadBusy /\ CmdLoadProfile(name)
    \/ Tick(MaxTime)

SpecStore == InitStore /\ [][NextStore]_vars

\* the saves that write the file in this step
Writing == Ended("save_write") \cup Ended("remove_save")

\* C24: a save replaces only the stored record of its own name: after its write
\* the file holds the saved record under that name (so a load that follows
\* returns it), and every record of another name is in the file exactly as it
\* was before the write, also when another save runs at the same time.
C24_LastWriteWinsPerName ==
    [][\A task \in Writing :
          /\ store_load(store', task.profile.name) = Some(task.profile)
          /\ \A name \in {"Default", "Stage"} :
                name # task.profile.name => store_load(store', name) = store_load(store, name)]_vars

----------------------------------------------------------------------------
(* remove_binding beside the reconciliation loop, the event callback and   *)
(* the delayed re-assertion.  Nothing bounds how long a pass of the loop,  *)
(* an audio call or the wait for a lock lasts, so the clock may advance    *)
(* between any two steps.                                                   *)

RemovalAudio == [AudioInit EXCEPT !.master = [volume |-> One \div 2, is_muted |-> TRUE]]

\* the release of the button
RemovalMessages == {<<129, 9, 0>>}

InitRemoval ==
    InitConfigured(Some([name |-> "Default", bindings |-> <<Button>>]), FALSE, RemovalAudio)

NextRemoval ==
    \/ CmdRemoveBinding(Button)
    \/ \E task \in tasks : RemoveClear(task)
    \/ \E task \in tasks : RemoveSend(task)
    \/ \E message \in RemovalMessages : EvArrive(message)
    \/ EvLookup \/ EvResolve \/ EvMark
    \/ \E task \in tasks : Reassert(task)
    \/ LoopPass
    \/ Tick(MaxTime)

SpecRemoval == InitRemoval /\ [][NextRemoval]_vars

\* remove_binding has run to its end for the binding: it is out of the active
\* profile and the zero frame has been sent
Removed(binding) ==
    /\ active_profile # None
    /\ \A i \in 1..Len(active_profile[1].bindings) :
          active_profile[1].bindings[i].id # binding.id
    /\ \A task \in tasks :
          task.kind \in {"remove_clear", "remove_send"} => task.binding.id # binding.id

\* C25: once remove_binding has sent the zero frame for a binding, the frame on
\* the binding's control stays the zero frame: neither a pass of the loop, nor
\* an event dispatch, nor a delayed re-assertion that read the binding before
\* the removal sends the control another frame.  (No binding is added here.)
C25_ZeroFrameIsLast ==
    /\ [](\A binding \in {Button} :
             Removed(binding)
             => hw[HwControl(binding)] = feedback_message(binding.control.channel,
                                                           binding.control.controller, 0,
                                                           binding.control.msg_type))
    /\ [][\A binding \in {Button} :
             Removed(binding) => hw'[HwControl(binding)] = hw[HwControl(binding)]]_vars

----------------------------------------------------------------------------
(* The release test of a ToggleMute binding (main.rs, lines 299-330)        *)

\* the step takes the release path: the callback returns, and a re-assertion
\* of the key is due 20 ms later
TakesRelease ==
    /\ pcEv' = "idle"
    /\ \E task \in tasks' :
          /\ task.kind = "reassert"
          /\ task.key = EvKey
          /\ task.due = now + 20
    /\ UNCHANGED <<audio, feedback_values>>

\* C26: an accepted event on a ToggleMute binding is handled as a release (no
\* toggle, a re-assertion 20 ms later) exactly when its value is 0 and its
\* message kind is Note; every other accepted event, a ControlChange of value 0
\* included, goes on to the toggle.
C26_ReleaseIsNoteOff ==
    [][pcEv = "mark" /\ pcEv' # pcEv
       => IF EvEvent.value = 0 /\ EvEvent.msg_type = "Note"
          THEN TakesRelease
          ELSE pcEv' = "mute_read" /\ tasks' = tasks]_vars

----------------------------------------------------------------------------
(* The locks of AppState.  Every field of AppState is a std::sync::Mutex;   *)
(* a thread that calls lock() on a mutex another thread holds waits until   *)
(* the guard is dropped.  Each thread of control is followed through the    *)
(* lock(), drop, Audio Control, profile-store, sleep and spawn steps of the *)
(* code path it runs.  osd_last_update, osd_settings and app_settings are   *)
(* left out: every lock() on them is a statement of its own that calls      *)
(* nothing that locks.                                                      *)

\* at most this many threads of control are inside a code path at a time
MaxRunning == 3

Locks == {"learn_pending", "learn_candidate", "learned_control", "active_profile",
          "binding_state", "feedback_values", "midi"}

\* a guard bound to a name: held until the name goes out of scope
Lock(l) == <<"lock", l>>

\* the end of the scope of a guard, or drop(guard)
Unlock(l) == <<"unlock", l>>

\* a guard that lives for one statement or one block that calls nothing else
Use(l) == <<"use", l>>

\* one or more Audio Control calls in a row
AudioCall == <<"audio", "backend">>

\* a ProfileStore call: profiles.json is read, written or both
StoreCall == <<"store", "profiles.json">>

SleepCall == <<"sleep", "timer">>

\* tauri::async_runtime::spawn of the delayed re-assertion
SpawnCall == <<"spawn", "task">>

\* AppState::sync_feedback_values, main.rs:592-720: the listings, then the
\* cache guard held over the loop over the bindings, in which a Focus
\* ToggleMute binding asks for the focused session (line 613)
sync_feedback_values_code ==
    <<AudioCall, Lock("feedback_values"), AudioCall, Unlock("feedback_values")>>

\* AppState::apply_midi_event, main.rs:215-590: the guard of line 216 lives to
\* the end of the function unless learn mode hears a message that is not a Note
CallbackPaths ==
    [learn_note  |-> <<Lock("learn_pending"), Use("learn_candidate"),
                       Unlock("learn_pending")>>,
     learn_other |-> <<Lock("learn_pending"), Unlock("learn_pending"),
                       Use("learn_candidate"), Use("learned_control")>>,
     unbound     |-> <<Lock("learn_pending"), Use("active_profile"),
                       Unlock("learn_pending")>>,
     release     |-> <<Lock("learn_pending"), Use("active_profile"),
                       Use("binding_state"), Use("binding_state"), SpawnCall,
                       Unlock("learn_pending")>>,
     toggle      |-> <<Lock("learn_pending"), Use("active_profile"),
                       Use("binding_state"), Use("binding_state"), AudioCall,
                       Use("feedback_values"), Use("midi"),
                       Unlock("learn_pending")>>,
     volume      |-> <<Lock("learn_pending"), Use("active_profile"),
                       Use("binding_state"), AudioCall,
                       Use("feedback_values"), Use("midi"),
                       Unlock("learn_pending")>>]

\* a variant of the loop that still holds the candidate guard of line 921
\* when it commits the control
LoopPaths_candidate_held ==
    [pass   |-> <<Use("learn_candidate"), Use("active_profile")>>
                \o sync_feedback_values_code
                \o <<Use("feedback_values"), Use("midi"), SleepCall>>,
     commit |-> <<Lock("learn_candidate"), Lock("learn_pending"),
                  Use("learned_control"), Unlock("learn_pending"),
                  Unlock("learn_candidate"), Use("active_profile"), SleepCall>>]

\* the reconciliation loop, main.rs:914-998: a pass over a profile, and a pass
\* that commits an expired candidate and finds no profile
LoopPaths ==
    [pass   |-> <<Use("learn_candidate"), Use("active_profile")>>
                \o sync_feedback_values_code
                \o <<Use("feedback_values"), Use("midi"), SleepCall>>,
     commit |-> <<Use("learn_candidate"), Lock("learn_pending"),
                  Use("learned_control"), Unlock("learn_pending"),
                  Use("active_profile"), SleepCall>>]

\* the delayed re-assertion, main.rs:312-328
TaskPaths ==
    [reassert |-> <<SleepCall, Lock("feedback_values"), Use("midi"),
                    Unlock("feedback_values")>>]

\* the commands that run on the main thread
MainPaths ==
    [start_midi_learn        |-> <<Use("learn_pending"), Use("learned_control")>>,
     consume_learned_control |-> <<Use("learned_control")>>,
     add_binding             |-> <<Lock("active_profile")>> \o sync_feedback_values_code
                                 \o <<Unlock("active_profile")>>,
     update_midi_feedback    |-> <<Lock("active_profile"), Use("binding_state"),
                                   Use("feedback_values"), Use("midi"),
                                   Unlock("active_profile")>>,
     set_binding_feedback    |-> <<Lock("active_profile"), Use("binding_state"),
                                   Use("feedback_values"), Use("midi"), AudioCall,
                                   Unlock("active_profile")>>,
     load_profile            |-> <<StoreCall, Use("active_profile")>>
                                 \o sync_feedback_values_code,
     save_profile            |-> <<StoreCall, Use("active_profile")>>
                                 \o sync_feedback_values_code,
     start_midi_device       |-> <<Use("midi")>>,
     stop_midi_device        |-> <<Use("midi")>>]

\* the async command remove_binding, commands/bindings.rs:25-71
WorkerPaths ==
    [remove_binding |-> <<Lock("active_profile"), StoreCall, Unlock("active_profile"),
                          Use("feedback_values"), Use("binding_state"), SleepCall,
                          Use("midi")>>]

PathsOf(c) ==
    CASE c = "callback" -> CallbackPaths
      [] c = "loop"     -> LoopPaths
      [] c = "task"     -> TaskPaths
      [] c = "main"     -> MainPaths
      [] c = "worker"   -> WorkerPaths

\* the steps of the path context c is on
Code(c) == IF ctx[c].path = "rest" THEN <<>> ELSE PathsOf(c)[ctx[c].path]

\* the guards alive after the first n steps of a path
RECURSIVE HeldAfter(_, _)
HeldAfter(code, n) ==
    IF n = 0 THEN {}
    ELSE LET before == HeldAfter(code, n - 1)
             op == code[n]
         IN  IF op[1] = "lock" THEN before \cup {op[2]}
             ELSE IF op[1] = "unlock" THEN before \ {op[2]}
             ELSE before

Held(c) == HeldAfter(Code(c), ctx[c].pc - 1)

Running(c) == ctx[c].path # "rest"

\* the step context c takes next
NextOp(c) == Code(c)[ctx[c].pc]

RunningNow == {c \in Contexts : Running(c)}

Acquires(c) == Running(c) /\ NextOp(c)[1] \in {"lock", "use"}

\* Mutex::lock returns only when no guard of the mutex is alive
Free(l) == \A d \in Contexts : l \notin Held(d)

\* a MIDI message arrives, or a pass of the loop begins
CtxEnter(c, path) ==
    /\ c \in {"callback", "loop"}
    /\ ~Running(c)
    /\ Cardinality(RunningNow) < MaxRunning
    /\ path \in DOMAIN PathsOf(c)
    /\ ctx' = [ctx EXCEPT ![c] = [path |-> path, pc |-> 1]]
    /\ UNCHANGED <<now, used, appVars, learnVars, ioVars, evVars, loopVars>>

\* the UI invokes a command
CtxCommand(c, path) ==
    /\ c \in {"main", "worker"}
    /\ ~Running(c)
    /\ Cardinality(RunningNow) < MaxRunning
    /\ path \in DOMAIN PathsOf(c)
    /\ ctx' = [ctx EXCEPT ![c] = [path |-> path, pc |-> 1]]
    /\ UNCHANGED <<now, used, appVars, learnVars, ioVars, evVars, loopVars>>

\* context c takes the next step of its path; a spawned re-assertion is
\* followed when none is under way and the bound leaves room for it
CtxStep(c) ==
    /\ Running(c)
    /\ Acquires(c) => Free(NextOp(c)[2])
    /\ ctx' = [d \in Contexts |->
                 IF d = c
                 THEN IF ctx[c].pc = Len(Code(c)) THEN Resting
                      ELSE [ctx[c] EXCEPT !.pc = @ + 1]
                 ELSE IF /\ d = "task" /\ NextOp(c)[1] = "spawn" /\ ~Running("task")
                         /\ Cardinality(RunningNow) < MaxRunning
                 THEN [path |-> "reassert", pc |-> 1]
                 ELSE ctx[d]]
    /\ UNCHANGED <<now, used, appVars, learnVars, ioVars, evVars, loopVars>>

NextLocks ==
    \/ \E c \in Contexts, path \in {"learn_note", "learn_other", "unbound", "release",
                                    "toggle", "volume", "pass", "commit"} :
           CtxEnter(c, path)
    \/ \E c \in Contexts, path \in DOMAIN MainPaths \cup DOMAIN WorkerPaths :
           CtxCommand(c, path)
    \/ \E c \in Contexts : CtxStep(c)

\* a thread that is runnable runs: every mutex wait ends once the mutex is free
\* often enough, and every call returns
SpecLocks ==
    /\ Init /\ [][NextLocks]_vars
    /\ \A c \in Contexts : SF_vars(CtxStep(c))

\* the contexts of D wait for one another
Deadlocked(D) ==
    /\ D # {}
    /\ \A c \in D : /\ Acquires(c)
                    /\ \E d \in D : NextOp(c)[2] \in Held(d)

\* the locks a code path requests while it holds another: <<held, requested>>
Nested(code) ==
    {pair \in Locks \X Locks :
        \E n \in 1..Len(code) : /\ code[n][1] \in {"lock", "use"}
                                /\ code[n][2] = pair[2]
                                /\ pair[1] \in HeldAfter(code, n - 1)}

\* the order of acquisition over every code path of every context
LockOrder ==
    UNION {UNION {Nested(PathsOf(c)[path]) : path \in DOMAIN PathsOf(c)} :
           c \in Contexts}

\* the locks requested while one of the locks of held is held
Inner(held) == {l \in Locks : \E h \in held : <<h, l>> \in LockOrder}

\* the locks that come after those of held, through at most k + 1 requests
RECURSIVE Later(_, _)
Later(held, k) ==
    IF k = 0 THEN Inner(held) ELSE Later(held \cup Inner(held), k - 1)

\* the locks that come after themselves in the order of acquisition
LocksInCycle == {l \in Locks : l \in Later({l}, Cardinality(Locks))}

\* C27: no lock comes before itself in the order of acquisition, the contexts
\* never wait for one another in a cycle, and no context stays inside a
\* code path for ever: every lock it requests on the way is obtained
C27_NoDeadlock ==
    /\ [](LocksInCycle = {})
    /\ [](\A D \in SUBSET Contexts : ~Deadlocked(D))
    /\ \A c \in Contexts : []<>(~Running(c))

\* the callback, holding learn_pending, waits for the cache while the delayed
\* re-assertion holds it, and the removal holds the profile
C27_Witness ==
    /\ "learn_pending" \in Held("callback")
    /\ Acquires("callback") /\ NextOp("callback")[2] = "feedback_values"
    /\ Held("task") = {"feedback_values"}
    /\ "active_profile" \in Held("worker")

\* what the step context c takes next asks of the guards c holds
Disciplined(c) ==
    NextOp(c)[1] \in {"lock", "use", "audio", "store"} => Held(c) = {}

\* C28: a context takes a lock, calls Audio Control or calls the profile
\* store only while it holds no lock
C28_OneLockAtATime ==
    [][\A c \in Contexts : CtxStep(c) => Disciplined(c)]_vars

----------------------------------------------------------------------------
(* Failing queries: the device is started, three bindings are active, other *)
(* programs change the volumes and mutes, each query of the AudioBackend    *)
(* fails or works on its own and the link to the device may break, while    *)
(* the reconciliation loop runs.                                            *)

FaultProfile ==
    [name |-> "Default",
     bindings |-> <<Knob, Output, MuteOn("mute-focus", 21, Target("Focus", ""))>>]

FaultAudio == ("failing" :> {}) @@ [AudioInit EXCEPT !.focus = Some("s1")]

\* another program sets the master volume, the volume of the playback device
\* or the mute of the focused session
OtherProgramSets(volume, device_volume, muted) ==
    /\ audio' = [audio EXCEPT !.master.volume = volume,
                              !.playback["d1"].volume = device_volume,
                              !.sessions["s1"].is_muted = muted]
    /\ audio' # audio
    /\ UNCHANGED <<now, used, appVars, learnVars, midi, transport, hw, evVars, loopVars, ctx>>

\* from now on exactly the queries of the set return Err
QueriesFail(queries) ==
    /\ queries # audio.failing
    /\ audio' = [audio EXCEPT !.failing = queries]
    /\ UNCHANGED <<now, used, appVars, learnVars, midi, transport, hw, evVars, loopVars, ctx>>

\* no query fails, one fails, or all fail
FaultSets == {{}, {"list_sessions"}, {"list_playback_devices"}, {"focused_session"},
              AudioQueries}

InitFaults == InitConfigured(Some(FaultProfile), FALSE, FaultAudio)

NextFaults ==
    \/ \E volume \in {0, One}, device_volume \in {0, One}, muted \in BOOLEAN :
           OtherProgramSets(volume, device_volume, muted)
    \/ \E queries \in FaultSets : QueriesFail(queries)
    \/ LinkBreaks
    \/ LoopPass

SpecFaults == InitFaults /\ [][NextFaults]_vars

\* the step in which sync_feedback_values returns
SyncReturns == pcLoop \in {"sync_sessions", "sync_write"} /\ pcLoop' = "snapshot"

\* what the listings of this pass hold: a listing that failed holds nothing,
\* and after a failed session listing the device listings are those the pass
\* would get now
PassListings ==
    IF pcLoop = "sync_sessions"
    THEN [sessions |-> <<>>, playback |-> list_devices(audio, "playback"),
          recording |-> list_devices(audio, "recording")]
    ELSE [sessions |-> lp.sessions, playback |-> lp.playback, recording |-> lp.recording]

\* the value the pass can derive for a binding from what did not fail
Derivable(binding) ==
    sync_value(binding, PassListings.sessions, PassListings.playback,
               PassListings.recording, audio)

\* C29: when sync_feedback_values returns in a pass of the loop, the cache
\* entry of every binding of the pass whose value the queries that did not
\* fail give holds that value, whichever other queries failed
C29_FailuresAreIsolated ==
    [][SyncReturns
       => \A i \in 1..Len(lp.profile[1].bindings) :
             LET binding == lp.profile[1].bindings[i]
             IN  Derivable(binding) # None
                 => Get(feedback_values', BindingKey_from_binding(binding))
                    = Derivable(binding)]_vars

----------------------------------------------------------------------------
(* Focus bindings: a fader sets the volume of the focused session and a pad *)
(* toggles its mute; the user moves the fader, the UI pushes feedback       *)
(* values, another program mutes and unmutes the focused session, and a     *)
(* binding on a Note of the fader's channel and number may be added.  The   *)
(* clock stands still.                                                      *)

FocusFader == VolumeOn("vol-focus", 32, Target("Focus", ""))
FocusPad == MuteOn("mute-focus", 21, Target("Focus", ""))

\* a Note binding with the device, channel and number of the fader
FaderMate == MuteOn("mute-master", 32, Target("Master", ""))

FocusProfile == [name |-> "Default", bindings |-> <<FocusFader, FocusPad>>]

FocusAudio == [AudioInit EXCEPT !.focus = Some("s1"), !.master.is_muted = TRUE]

FocusMessages == {<<177, 32, 64>>}

InitFocus == InitConfigured(Some(FocusProfile), FALSE, FocusAudio)

NextFocus ==
    \/ \E message \in FocusMessages : EvArrive(message)
    \/ EvLookup \/ EvResolve
    \/ EvVolSet \/ EvVolCache \/ EvVolOsd \/ EvVolSend \/ EvVolNotify
    \/ \E value \in {0, One} : CmdSetBindingFeedback("vol-focus", value, FALSE)
    \/ CmdUpdateMidiFeedback(Target("Focus", ""), One, None, Some("Volume"))
    \/ CmdAddBinding(FaderMate)
    \/ \E muted \in BOOLEAN : OtherProgramSets(0, 0, muted)
    \/ LoopPass

SpecFocus == InitFocus /\ [][NextFocus]_vars

\* the Volume bindings on Focus of a profile
FocusVolumes(profile) ==
    {profile.bindings[i] : i \in {j \in 1..Len(profile.bindings) :
                                     /\ profile.bindings[j].action = "Volume"
                                     /\ profile.bindings[j].target.kind = "Focus"}}

\* C30: no step of the reconciliation loop changes the Feedback Cache entry of
\* a Volume binding on Focus of the active profile
C30_LoopSparesFocusVolume ==
    [][(LoopPass /\ active_profile # None)
       => \A binding \in FocusVolumes(active_profile[1]) :
             Get(feedback_values', BindingKey_from_binding(binding))
             = Get(feedback_values, BindingKey_from_binding(binding))]_vars

----------------------------------------------------------------------------
(* The first event of a key *)

\* the resolver is called for a key that has no BindingState yet
FirstOfKey == Resolving /\ ~Has(binding_state, EvKey)

\* C31: the resolver treats the first event of a key as it would if the
\* binding had no debounce: debounce_ms does not suppress it
C31_FirstEventNotDebounced ==
    [][FirstOfKey
       => res'.ret = apply_midi_event([EvBinding EXCEPT !.debounce_ms = 0], EvEvent,
                                      StateBefore, now).ret]_vars

----------------------------------------------------------------------------
(* The user moves a knob while the UI pushes feedback: the profile holds    *)
(* Knob and the Note binding Pad on the same device, channel and number     *)
(* (add_binding keeps both), the knob is turned and the UI calls            *)
(* set_binding_feedback and update_midi_feedback.                           *)

ActiveProfile == [name |-> "Default", bindings |-> <<Knob, Pad>>]

ActiveMessages == {<<177, 7, 64>>}

\* 1.0, and a value less than 0.005 away from the 64/127 the knob sets
ActiveValues == {One, 64 * (One \div 127) + 1000}

InitActive == InitConfigured(Some(ActiveProfile), FALSE, AudioInit)

NextActive ==
    \/ \E message \in ActiveMessages : EvArrive(message)
    \/ EvLookup \/ EvResolve
    \/ EvVolSet \/ EvVolCache \/ EvVolOsd \/ EvVolSend \/ EvVolNotify
    \/ \E value \in ActiveValues, silent \in BOOLEAN :
           CmdSetBindingFeedback("knob", value, silent)
    \/ \E value \in ActiveValues, binding_id \in {None, Some("knob")} :
           CmdUpdateMidiFeedback(Target("Master", ""), value, binding_id, None)
    \/ FeedbackTick

SpecActive == InitActive /\ [][NextActive]_vars

\* the key of Knob is UserActive
KnobActive == user_active(binding_state, Knob, now)

KnobKey == BindingKey_from_binding(Knob)

\* C32: while the key of the knob is UserActive, a silent set_binding_feedback
\* changes nothing, a set_binding_feedback that is not silent writes the
\* value to the Feedback Cache and sends no frame, and update_midi_feedback
\* leaves the cache entry of the knob and the knob itself alone
C32_NoFightWithUser ==
    [][KnobActive
       => \A value \in ActiveValues :
            /\ CmdSetBindingFeedback("knob", value, TRUE)
               => UNCHANGED <<feedback_values, osd_last_update, midi, transport, hw>>
            /\ CmdSetBindingFeedback("knob", value, FALSE)
               => /\ Get(feedback_values', KnobKey) = Some(value)
                  /\ hw' = hw
            /\ \A binding_id \in {None, Some("knob")} :
                 CmdUpdateMidiFeedback(Target("Master", ""), value, binding_id, None)
                 => /\ Get(feedback_values', KnobKey) = Get(feedback_values, KnobKey)
                    /\ Get(hw', HwControl(Knob)) = Get(hw, HwControl(Knob))]_vars


----------------------------------------------------------------------------
(* The retry after a reconnect (midi.rs 223-237).  The port may open and   *)
(* still refuse writes, so the write on the new connection can fail.       *)

\* the port starts refusing writes: open connections go dead with it
WritesFail ==
    /\ Writable(transport)
    /\ transport' = [transport EXCEPT !.writable = FALSE, !.link_ok = FALSE]
    /\ UNCHANGED <<now, used, appVars, learnVars, audio, midi, hw, evVars, loopVars, ctx>>

\* the port takes writes again on connections opened from now on
WritesWork ==
    /\ ~Writable(transport)
    /\ transport' = [transport EXCEPT !.writable = TRUE]
    /\ UNCHANGED <<now, used, appVars, learnVars, audio, midi, hw, evVars, loopVars, ctx>>

InitRetry ==
    /\ now = 0
    /\ used = [cmds |-> 0, events |-> 0, feedback |-> NoFeedbackCall]
    /\ active_profile = None
    /\ binding_state = EmptyMap
    /\ feedback_values = EmptyMap
    /\ learn_pending = FALSE
    /\ learn_candidate = None
    /\ learned_control = None
    /\ heard = None
    /\ polled = NotPolled
    /\ ctx = CtxIdle
    /\ osd_last_update = None
    /\ store = <<>>
    /\ audio = AudioInit
    /\ midi = MidiManager_new
    /\ transport = [port_present |-> TRUE, link_ok |-> FALSE, writable |-> TRUE]
    /\ hw = EmptyMap
    /\ pcEv = "idle"
    /\ ev = EvIdle
    /\ tasks = {}
    /\ pcLoop = "candidate"
    /\ lp = LpIdle
    /\ res = NoCall(EmptyMap)
    /\ eff = NoEffect

NextRetry ==
    \/ \E device_id \in FeedbackDevices : SendFeedback(device_id)
    \/ CmdStartMidiDevice("midi:0", "midi:0")
    \/ CmdStopMidiDevice
    \/ LinkBreaks
    \/ PortUnplugged
    \/ PortPlugged
    \/ WritesFail
    \/ WritesWork
    \/ FeedbackTick

SpecRetry == InitRetry /\ [][NextRetry]_vars

\* the step is a send_feedback call whose reconnect attempt succeeded
ReconnectSucceeds == Sends /\ Reconnects /\ midi'.output_connections = 1

\* the frame of the calls SendFeedback makes
RetryMessage == feedback_message(1, 7, One, "ControlChange")

\* the calls made on the port from the reconnect on
FromConnect(calls) ==
    IF calls # <<>> /\ Head(calls) = "send" THEN Tail(calls) ELSE calls

\* C33: a send_feedback call whose reconnect attempt succeeds writes the frame
\* once on the new connection, after the one connect, and leaves the failure
\* counter at 0; the frame reaches the wire exactly when that write works, and
\* when it fails the call makes no further connect or write, leaves the device
\* showing what it showed, and still returns Ok.
C33_RetryOnceAfterReconnect ==
    [][ReconnectSucceeds
       => /\ FromConnect(used'.feedback.calls) = <<"connect", "send">>
          /\ midi'.reconnect_failures = 0
          /\ midi'.last_reconnect_attempt = Some(now)
          /\ used'.feedback.ret = "Ok"
          /\ IF transport'.link_ok
             THEN used'.feedback.sent = Some(RetryMessage)
             ELSE used'.feedback.sent = None /\ hw' = hw]_vars

\* a reconnect after earlier failures succeeded and its retry write failed
C33_Witness ==
    /\ used.feedback.before.reconnect_failures > 0
    /\ used.feedback.calls = <<"connect", "send">>
    /\ used.feedback.sent = None
    /\ midi.reconnect_failures = 0
    /\ midi.output_connections = 1


----------------------------------------------------------------------------
(* The on-screen display (main.rs 972-993).  The loop reads the timestamp  *)
(* under one lock section and clears it under another; hiding the window   *)
(* and clearing the timestamp are one step of the model.                   *)

OsdStep == 600
MaxOsdTime == 3000

OsdProfile == [name |-> "Default", bindings |-> <<Knob>>]

OsdValues == {0, One}

OsdTick ==
    /\ now + OsdStep <= MaxOsdTime
    /\ now' = now + OsdStep
    /\ UNCHANGED <<used, appVars, learnVars, ioVars, evVars, loopVars, ctx>>

\* before and after a profile was loaded
InitOsd ==
    \E profile \in {None, Some(OsdProfile)} : InitConfigured(profile, FALSE, AudioInit)

NextOsd ==
    \/ LoopCandidate \/ LoopProfile
    \/ LoopSyncSessions \/ LoopSyncDevices \/ LoopSyncWrite
    \/ LoopSnapshot \/ LoopEmit
    \/ LoopOsdCheck \/ LoopOsdHide \/ LoopSleep
    \/ \E value \in OsdValues : CmdSetBindingFeedback("knob", value, FALSE)
    \/ OsdTick

SpecOsd == InitOsd /\ [][NextOsd]_vars

\* the recorded update is older than the hide time
OsdStale == osd_last_update # None /\ now - osd_last_update[1] > OSD_HIDE_MS

\* C34: the loop discards the recorded timestamp, hiding the display, only when
\* the recorded update is more than 1200 ms old at that moment
C34_HidesOnlyStaleUpdates ==
    [][osd_last_update # None /\ osd_last_update' = None => OsdStale]_vars


----------------------------------------------------------------------------
(* Application names (main.rs 354-375, 620-643, 672-695; audio/windows.rs  *)
(* 528-548, 889-968, 991-1051, 1229-1264).  A name is a sequence of        *)
(* characters; a session is the file name of its executable and the        *)
(* display name the session itself reports, if it reports one.             *)

MaxNameLen == 3

NameChars == {"a", "A", "b", "B", " ", "-"}

\* every name of at most MaxNameLen characters
TargetNames == UNION {[1..n -> NameChars] : n \in 1..MaxNameLen}

DotExe == <<".", "e", "x", "e">>

FileNames == {stem \o DotExe : stem \in {<<"a">>, <<"A", "b">>, <<"a", "-", "b">>,
                                         <<"a", "_", "B">>, <<"b", "a">>}}

\* GetDisplayName: nothing, a plain name, a name with blanks around it, a
\* resource reference
RawDisplayNames == {None, Some(<<"b">>), Some(<<" ", "B">>), Some(<<"@", "a">>)}

AppSessions == [file_name : FileNames, raw_display : RawDisplayNames]

lower_char(c) == CASE c = "A" -> "a" [] c = "B" -> "b" [] OTHER -> c

upper_char(c) == CASE c = "a" -> "A" [] c = "b" -> "B" [] OTHER -> c

is_uppercase(c) == c \in {"A", "B"}

\* str::to_lowercase
str_to_lowercase(name) == [i \in DOMAIN name |-> lower_char(name[i])]

\* str::trim
RECURSIVE str_trim(_)
str_trim(name) ==
    IF name = <<>> THEN name
    ELSE IF Head(name) = " " THEN str_trim(Tail(name))
    ELSE IF name[Len(name)] = " " THEN str_trim(SubSeq(name, 1, Len(name) - 1))
    ELSE name

\* Path::file_stem: the file name up to its last dot, when that is not the first
\* character
path_file_stem(file_name) ==
    LET dots == {i \in DOMAIN file_name : file_name[i] = "."}
        last == IF dots = {} THEN 0 ELSE CHOOSE i \in dots : \A j \in dots : j <= i
    IN  IF last > 1 THEN SubSeq(file_name, 1, last - 1) ELSE file_name

\* name.strip_suffix(".exe").unwrap_or(name)
strip_suffix_exe(name) ==
    IF Len(name) >= 4 /\ SubSeq(name, Len(name) - 3, Len(name)) = DotExe
    THEN SubSeq(name, 1, Len(name) - 4) ELSE name

\* label.replace(['_', '-'], " ").split_whitespace()
RECURSIVE split_words(_, _, _)
split_words(label, word, words) ==
    IF label = <<>> THEN IF word = <<>> THEN words ELSE Append(words, word)
    ELSE IF Head(label) \in {"_", "-", " "}
         THEN split_words(Tail(label), <<>>, IF word = <<>> THEN words ELSE Append(words, word))
         ELSE split_words(Tail(label), Append(word, Head(label)), words)

humanize_word(word) ==
    IF \E i \in DOMAIN word : is_uppercase(word[i]) THEN word
    ELSE IF word = <<>> THEN word
    ELSE <<upper_char(Head(word))>> \o str_to_lowercase(Tail(word))

\* .map(humanize_word).collect::<Vec<_>>().join(" ")
RECURSIVE join_words(_)
join_words(words) ==
    IF words = <<>> THEN <<>>
    ELSE IF Len(words) = 1 THEN humanize_word(words[1])
    ELSE humanize_word(Head(words)) \o <<" ">> \o join_words(Tail(words))

humanize_label(label) == join_words(split_words(label, <<>>, <<>>))

friendly_process_label(file_name) ==
    LET label == humanize_label(path_file_stem(file_name))
    IN  IF label = <<>> THEN None ELSE Some(label)

is_resource_display_name(name) == str_trim(name) # <<>> /\ Head(str_trim(name)) = "@"

\* SessionInfo.display_name as list_sessions builds it (friendly_name)
friendly_name(session) ==
    LET display_name ==
            IF session.raw_display = None THEN None
            ELSE LET name == str_trim(session.raw_display[1])
                 IN  IF name = <<>> \/ is_resource_display_name(name) THEN None ELSE Some(name)
    IN  IF display_name # None THEN display_name[1]
        ELSE IF friendly_process_label(session.file_name) # None
             THEN friendly_process_label(session.file_name)[1]
             ELSE humanize_label(session.file_name)

\* the find closure of main.rs (toggle-mute lookup and both reconciliation
\* lookups are the same text)
listed_session_matches(session, name) ==
    LET target == str_to_lowercase(name)
    IN  \/ str_to_lowercase(path_file_stem(session.file_name)) = target
        \/ str_to_lowercase(strip_suffix_exe(session.file_name)) = target
        \/ str_to_lowercase(friendly_name(session)) = target

\* set_session_mute_by_name
mute_by_name_matches(session, name) ==
    LET target_name == str_to_lowercase(name)
    IN  \/ str_to_lowercase(path_file_stem(session.file_name)) = target_name
        \/ str_to_lowercase(strip_suffix_exe(session.file_name)) = target_name
        \/ /\ session.raw_display # None
           /\ str_to_lowercase(str_trim(session.raw_display[1])) = target_name

\* set_session_volume_by_name
volume_by_name_matches(session, name) ==
    LET target_name == str_to_lowercase(name)
    IN  \/ mute_by_name_matches(session, name)
        \/ /\ friendly_process_label(session.file_name) # None
           /\ str_to_lowercase(friendly_process_label(session.file_name)[1]) = target_name
        \/ str_to_lowercase(humanize_label(session.file_name)) = target_name

NoMatching(session, name) == [session |-> session, name |-> name, done |-> FALSE]

\* the four paths resolve the name against the session
MatchName ==
    /\ ~used.matching.done
    /\ LET session == used.matching.session
           name    == used.matching.name
       IN  used' = [used EXCEPT !.matching =
                       [session |-> session, name |-> name, done |-> TRUE,
                        set_volume |-> volume_by_name_matches(session, name),
                        set_mute   |-> mute_by_name_matches(session, name),
                        toggle     |-> listed_session_matches(session, name),
                        sync       |-> listed_session_matches(session, name)]]
    /\ UNCHANGED <<now, appVars, learnVars, ioVars, evVars, loopVars, ctx>>

InitNames ==
    /\ \E session \in AppSessions, name \in TargetNames :
          used = [cmds |-> 0, events |-> 0, matching |-> NoMatching(session, name)]
    /\ now = 0
    /\ active_profile = None
    /\ binding_state = EmptyMap
    /\ feedback_values = EmptyMap
    /\ learn_pending = FALSE
    /\ learn_candidate = None
    /\ learned_control = None
    /\ heard = None
    /\ polled = NotPolled
    /\ ctx = CtxIdle
    /\ osd_last_update = None
    /\ store = <<>>
    /\ audio = AudioInit
    /\ midi = MidiManager_new
    /\ transport = [port_present |-> TRUE, link_ok |-> FALSE]
    /\ hw = EmptyMap
    /\ pcEv = "idle"
    /\ ev = EvIdle
    /\ tasks = {}
    /\ pcLoop = "candidate"
    /\ lp = LpIdle
    /\ res = NoCall(EmptyMap)
    /\ eff = NoEffect

NextNames == MatchName

SpecNames == InitNames /\ [][NextNames]_vars

\* C35: every path that resolves an Application target accepts the same
\* sessions for a name: set volume, set mute, the toggle-mute lookup and the
\* reconciliation lookup agree on whether a session matches
C35_PathsAcceptSameSessions ==
    used.matching.done
    => /\ used.matching.set_volume = used.matching.set_mute
       /\ used.matching.set_mute = used.matching.toggle
       /\ used.matching.toggle = used.matching.sync


----------------------------------------------------------------------------
(* A malformed entry in profiles.json (profile_store.rs 61-73).  The file  *)
(* is edited outside the program; serde_json rejects the whole file when   *)
(* one entry does not parse.  Profiles carry their OSD settings here.      *)

OsdSettings(enabled) == [enabled |-> enabled]

StoredProfile ==
    [name |-> "Default", bindings |-> <<Knob, Pad>>, osd_settings |-> OsdSettings(TRUE)]

OtherProfile ==
    [name |-> "Stage", bindings |-> <<Knob>>, osd_settings |-> OsdSettings(TRUE)]

\* an entry without its bindings
MalformedEntry == [name |-> "Broken"]

\* profiles.json is changed by hand and no longer parses
FileCorrupted ==
    /\ load_all(store) # None
    /\ store' = Append(store, MalformedEntry)
    /\ UNCHANGED <<now, used, active_profile, binding_state, feedback_values, osd_last_update,
                   learnVars, ioVars, evVars, loopVars, ctx>>

\* commands/settings.rs, update_osd_settings, lines 80-88 (the settings shown
\* on screen are not part of the model)
CmdUpdateOsdSettings(enabled) ==
    /\ used.cmds < MaxCmds
    /\ used' = [used EXCEPT !.cmds = @ + 1]
    /\ IF active_profile = None THEN UNCHANGED <<active_profile, store>>
       ELSE LET updated == [active_profile[1] EXCEPT !.osd_settings = OsdSettings(enabled)]
            IN  /\ active_profile' = Some(updated)
                /\ IF load_all(store) = None THEN UNCHANGED store
                   ELSE store' = store_save(store, updated)
    /\ UNCHANGED <<now, binding_state, feedback_values, osd_last_update, learnVars, ioVars,
                   evVars, loopVars, ctx>>

InitMalformed == InitConfigured(Some(StoredProfile), FALSE, AudioInit)

NextMalformed ==
    \/ FileCorrupted
    \/ \E profile \in {StoredProfile, OtherProfile} : CmdSaveProfile(profile)
    \/ \E name \in {"Default", "Stage"} : CmdLoadProfile(name)
    \/ \E binding \in {Knob, Pad} : CmdRemoveBinding(binding)
    \/ \E task \in tasks : RemoveClear(task)
    \/ \E task \in tasks : RemoveSend(task)
    \/ \E enabled \in BOOLEAN : CmdUpdateOsdSettings(enabled)
    \/ Tick(MaxTime)

SpecMalformed == InitMalformed /\ [][NextMalformed]_vars

\* the step is a command that has to read the store
ReadsStore ==
    \/ \E profile \in {StoredProfile, OtherProfile} : CmdSaveProfile(profile)
    \/ \E name \in {"Default", "Stage"} : CmdLoadProfile(name)
    \/ \E binding \in {Knob, Pad} : CmdRemoveBinding(binding)
    \/ \E enabled \in BOOLEAN : CmdUpdateOsdSettings(enabled)

\* C36: while profiles.json holds a malformed entry, a command that has to read
\* the store leaves the file, the active profile and the runtime state (the
\* BindingState map, the Feedback Cache, the pending work) as they were
C36_MalformedStoreRejected ==
    [][load_all(store) = None /\ ReadsStore
       => UNCHANGED <<store, active_profile, binding_state, feedback_values, tasks, hw>>]_vars


----------------------------------------------------------------------------
(* The runtime maps when the active profile changes (commands/profiles.rs  *)
(* 13-57, commands/bindings.rs 28-70).                                     *)

StaleProfiles == {[name |-> "Default", bindings |-> <<Knob, Slider>>],
                  [name |-> "Stage", bindings |-> <<Slider>>]}

StaleMessages == {<<177, 7, 64>>}

InitStale ==
    InitConfigured(Some([name |-> "Default", bindings |-> <<Knob, Slider>>]), FALSE, AudioInit)

NextStale ==
    \/ \E profile \in StaleProfiles : CmdSaveProfile(profile)
    \/ \E name \in {"Default", "Stage"} : CmdLoadProfile(name)
    \/ CmdRemoveBinding(Knob)
    \/ \E task \in tasks : RemoveClear(task)
    \/ \E task \in tasks : RemoveSend(task)
    \/ \E message \in StaleMessages : EvArrive(message)
    \/ EvLookup \/ EvResolve
    \/ EvVolSet \/ EvVolCache \/ EvVolOsd \/ EvVolSend \/ EvVolNotify
    \/ Tick(MaxTime)

SpecStale == InitStale /\ [][NextStale]_vars

\* no command, no task and no event is under way
Quiet == tasks = {} /\ pcEv = "idle"

\* the keys bound in the active profile
BoundKeys ==
    IF active_profile = None THEN {}
    ELSE {BindingKey_from_binding(active_profile[1].bindings[i]) :
             i \in 1..Len(active_profile[1].bindings)}

\* C37: when nothing is in flight, every key of the Feedback Cache and of the
\* BindingState map is the key of a binding of the active profile
C37_NoStaleKeys ==
    Quiet => (DOMAIN feedback_values \cup DOMAIN binding_state) \subseteq BoundKeys


----------------------------------------------------------------------------
(* The shaping state and the cache of a Volume binding (bindings.rs 57-71, *)
(* main.rs 276-283 and 715-717, commands/bindings.rs 194-208).             *)

DriftProfile == [name |-> "Default", bindings |-> <<Knob, Encoder>>]

\* the knob at its middle, the encoder one step up
DriftMessages == {<<177, 7, 64>>, <<177, 10, 1>>}

InitDrift == InitConfigured(Some(DriftProfile), FALSE, AudioInit)

NextDrift ==
    \/ \E message \in DriftMessages : EvArrive(message)
    \/ EvLookup \/ EvResolve
    \/ EvVolSet \/ EvVolCache \/ EvVolOsd \/ EvVolSend \/ EvVolNotify
    \/ LoopPass
    \/ \E id \in {"knob", "encoder"} : CmdSetBindingFeedback(id, One, FALSE)
    \/ OtherProgramSets(One, 0, FALSE)

SpecDrift == InitDrift /\ [][NextDrift]_vars

\* no event or task is under way and the loop is between two passes
AtRest == Quiet /\ pcLoop \in {"sleep", "candidate"}

\* C38: when nothing is in flight, the last_value of the BindingState of a
\* Volume binding equals the value cached for its key, when both exist
C38_LastValueFollowsCache ==
    AtRest
    => \A i \in 1..Len(DriftProfile.bindings) :
          LET binding == DriftProfile.bindings[i]
              key     == BindingKey_from_binding(binding)
          IN  binding.action = "Volume" /\ Has(binding_state, key) /\ Has(feedback_values, key)
              => binding_state[key].last_value = feedback_values[key]


----------------------------------------------------------------------------
(* Press and release of a mute button (main.rs 289-330 and 332-457).       *)

\* a mute button with a debounce time
Latch == Binding("latch", 1, 12, "Note", Target("Master", ""), "ToggleMute", "Absolute", 0, 100)

PressProfile == [name |-> "Default", bindings |-> <<Button, Latch>>]

\* Note on at full velocity and Note off, for each button
PressMessages == {<<145, 9, 127>>, <<129, 9, 0>>, <<145, 12, 127>>, <<129, 12, 0>>}

InitPress == InitConfigured(Some(PressProfile), FALSE, AudioInit)

NextPress ==
    \/ \E message \in PressMessages : EvArrive(message)
    \/ EvLookup \/ EvResolve \/ EvMark
    \/ EvMuteRead \/ EvMuteSet \/ EvMuteOsd \/ EvMuteCache \/ EvMuteSend \/ EvMuteNotify
    \/ \E task \in tasks : Reassert(task)
    \/ Tick(MaxTime)

SpecPress == InitPress /\ [][NextPress]_vars

\* the step is the re-assertion of a key
Reasserts == \E task \in tasks : Reassert(task)

\* C39: on a ToggleMute binding a press is taken to the toggle, and a release
\* that is taken up to the re-assertion; the audio state changes only in the handling of a
\* press, where the mute state is inverted, once; the re-assertion is due 20 ms
\* after the release, sends the value cached for the key when it fires, 0.0
\* without an entry, and changes neither the cache nor the audio state.
C39_PressReleaseTogglesOnce ==
    /\ [][Resolving /\ EvBinding.action = "ToggleMute" /\ EvEvent.value > 0
          => pcEv' = "mark"]_vars
    /\ [][pcEv = "mark" /\ pcEv' # pcEv
          => IF EvEvent.value > 0 THEN pcEv' = "mute_read" /\ tasks' = tasks
             ELSE /\ pcEv' = "idle"
                  /\ tasks' = tasks \cup {[kind |-> "reassert", binding |-> EvBinding,
                                            key |-> EvKey, due |-> now + 20]}]_vars
    /\ [][audio' # audio
          => /\ pcEv = "mute_set" /\ EvEvent.value > 0
             /\ audio'.master.is_muted = ~audio.master.is_muted]_vars
    /\ [][pcEv = "mute_read" /\ pcEv' # pcEv => pcEv' = "mute_set"]_vars
    /\ [][pcEv = "mute_set" /\ pcEv' # pcEv => audio' # audio]_vars
    /\ [][Reasserts
          => /\ UNCHANGED <<feedback_values, audio>>
             /\ \A task \in Ended("reassert") :
                   /\ now >= task.due
                   /\ hw' = Put(hw, HwControl(task.binding),
                                feedback_message(task.binding.control.channel,
                                                 task.binding.control.controller,
                                                 IF Has(feedback_values, task.key)
                                                 THEN feedback_values[task.key] ELSE 0,
                                                 task.binding.control.msg_type))]_vars


----------------------------------------------------------------------------
(* The fields of the MidiManager (midi.rs 11-18) over start_device, stop   *)
(* and send_feedback, on the port of SpecRetry.                            *)

\* C40: an active device id is recorded exactly when an input connection is
\* open, and at most one output connection is held
C40_SessionFieldsConsistent ==
    /\ (midi.active_device # None) <=> midi.input_connection
    /\ midi.output_connections <= 1

====
